---- MODULE Spec2Model ----
(***************************************************************************)
(* A model of the DPLL(T) solver: the CNF value types (src/src/cnf.rs),    *)
(* the search loop over a provenance-tagged trail (src/src/dpll.rs), the   *)
(* theory interface (src/src/smt.rs), the empty theory                     *)
(* (src/src/smt/empty.rs), the EUF theory (src/src/smt/euf.rs) and the     *)
(* DIMACS parser (src/src/dimacs.rs).                                      *)
(*                                                                         *)
(* Option<bool> is modelled by the strings "SomeTrue", "SomeFalse" and     *)
(* "None"; Option<Literal> by a record [some, lit].  A literal is a        *)
(* nonzero integer, a clause a sequence of literals, a formula a sequence  *)
(* of clauses, and the trail a sequence of <<literal, provenance>> pairs.  *)
(***************************************************************************)
EXTENDS Integers, Sequences, FiniteSets, TLC

VARIABLES
    theory,     \* the theory object handed to dpll (EmptyTheory or EUF)
    formula0,   \* the formula passed to dpll
    formula,    \* the formula after simplify_formula
    model,      \* the trail (Model)
    pc,         \* where the run is: "start", "loop", "sat", "unsat", a panic
    calls,      \* the incorporate calls of the last step, with decide's answer;
                \* in EUFSpec the literals incorporated since the last forget
    did,        \* the kinds of step the run has taken so far
    evald,      \* the last evaluation made by the evaluation harness
    dimacs      \* the locals of dimacs::from_string and the lines it has read

vars == <<theory, formula0, formula, model, pc, calls, did, evald, dimacs>>

-----------------------------------------------------------------------------
(* Bounds of the model.                                                    *)

\* an input formula has at most MaxClauses clauses
MaxClauses == 3
\* an input formula has at most MaxLits literal occurrences in all
MaxLits == 4

\* the longest formula handed to the evaluation operations
MaxEvalClauses == 2

\* the width isize is scaled down to
IsizeBits == 8

\* from_string is given at most MaxDimacsLines lines
MaxDimacsLines == 3

\* a clause line given to from_string has at most MaxLineTokens words
MaxLineTokens == 2

-----------------------------------------------------------------------------
(* src/src/cnf.rs: literals.                                               *)

\* F applied to the value of x: the loops below carry their local state
\* through it, one value per iteration
Bind(x, F(_)) == CHOOSE r \in {F(v) : v \in {x}} : TRUE

\* isize, scaled down to IsizeBits bits in two's complement
IsizeMin == 0 - 2^(IsizeBits - 1)

IsizeMax == 2^(IsizeBits - 1) - 1

Isize == IsizeMin..IsizeMax

\* the value an arithmetic result wraps to where overflow is not checked
wrapping(n) == ((n - IsizeMin) % 2^IsizeBits) + IsizeMin

\* the builds of the crate: overflow checks abort in "debug" and are
\* compiled out in "release"
Builds == {"debug", "release"}

\* Literal::new: a record; panic is set for atom 0, where the code aborts
Literal_new(atom) == [panic |-> atom = 0, lit |-> atom]

Literal_is_negated(lit) == lit < 0

\* -atom: overflows for the least isize only
Literal_negate_overflows(lit) == (0 - lit) \notin Isize

Literal_negate(lit) == wrapping(0 - lit)

\* atom.abs(): overflows for the least isize only
Literal_get_id_overflows(lit) == lit < 0 /\ (0 - lit) \notin Isize

Literal_get_id(lit) == IF lit < 0 THEN wrapping(0 - lit) ELSE lit

-----------------------------------------------------------------------------
(* src/src/dpll.rs: the trail.                                             *)

Provenance == {"UnitPropagation", "TheoryPropagation", "Decision", "Backjump"}

Model_new == << >>

\* Model::append overwriting the last entry of a trail that is not empty
Model_append_overwrites_last(m, lit, provenance) ==
    IF Len(m) = 0 THEN <<<<lit, provenance>>>>
    ELSE [m EXCEPT ![Len(m)] = <<lit, provenance>>]

Model_append(m, lit, provenance) == Append(m, <<lit, provenance>>)

\* Model::contains looking at the last entry of the trail only
Model_contains_last_only(m, lit) == Len(m) > 0 /\ m[Len(m)][1] = lit

Model_contains(m, lit) == \E i \in 1..Len(m) : m[i][1] = lit

Model_get_assignments(m) == [i \in 1..Len(m) |-> m[i][1]]

-----------------------------------------------------------------------------
(* src/src/dpll.rs: three-valued evaluation.                               *)

Literal_is_true_in(lit, m) ==
    IF Model_contains(m, lit) THEN "SomeTrue"
    ELSE IF Model_contains(m, Literal_negate(lit)) THEN "SomeFalse"
    ELSE "None"

\* Clause::is_true_in with the None arm leaving all_false as it is
RECURSIVE Clause_is_true_in_loop_keeps_all_false(_, _, _, _)
Clause_is_true_in_loop_keeps_all_false(clits, m, i, all_false) ==
    IF i > Len(clits)
    THEN (IF all_false THEN "SomeFalse" ELSE "None")
    ELSE IF Literal_is_true_in(clits[i], m) = "SomeTrue" THEN "SomeTrue"
         ELSE Clause_is_true_in_loop_keeps_all_false(clits, m, i + 1, all_false)

RECURSIVE Clause_is_true_in_loop(_, _, _, _)
Clause_is_true_in_loop(clits, m, i, all_false) ==
    IF i > Len(clits)
    THEN (IF all_false THEN "SomeFalse" ELSE "None")
    ELSE LET r == Literal_is_true_in(clits[i], m)
         IN  IF r = "SomeTrue" THEN "SomeTrue"
             ELSE IF r = "SomeFalse"
                  THEN Clause_is_true_in_loop(clits, m, i + 1, all_false)
                  ELSE Clause_is_true_in_loop(clits, m, i + 1, FALSE)

Clause_is_true_in(clits, m) == Clause_is_true_in_loop(clits, m, 1, TRUE)

\* Formula::is_true_in scanning past a clause that evaluates None
RECURSIVE Formula_is_true_in_loop_scans_on(_, _, _)
Formula_is_true_in_loop_scans_on(clauses, m, i) ==
    IF i > Len(clauses)
    THEN "SomeTrue"
    ELSE LET r == Clause_is_true_in(clauses[i], m)
             rest == Formula_is_true_in_loop_scans_on(clauses, m, i + 1)
         IN  IF r = "SomeFalse" \/ rest = "SomeFalse" THEN "SomeFalse"
             ELSE IF r = "None" THEN "None"
                  ELSE rest

\* Formula::is_true_in answering Some(true) at the first true clause
RECURSIVE Formula_is_true_in_loop_any(_, _, _)
Formula_is_true_in_loop_any(clauses, m, i) ==
    IF i > Len(clauses)
    THEN "SomeTrue"
    ELSE LET r == Clause_is_true_in(clauses[i], m)
         IN  IF r = "SomeTrue" THEN "SomeTrue"
             ELSE IF r = "SomeFalse" THEN "SomeFalse"
                  ELSE "None"

RECURSIVE Formula_is_true_in_loop(_, _, _)
Formula_is_true_in_loop(clauses, m, i) ==
    IF i > Len(clauses)
    THEN "SomeTrue"
    ELSE LET r == Clause_is_true_in(clauses[i], m)
         IN  IF r = "SomeTrue" THEN Formula_is_true_in_loop(clauses, m, i + 1)
             ELSE IF r = "SomeFalse" THEN "SomeFalse"
                  ELSE "None"

Formula_is_true_in(clauses, m) == Formula_is_true_in_loop(clauses, m, 1)

-----------------------------------------------------------------------------
(* src/src/smt/euf.rs: terms and literals.  A term is a triple             *)
(* <<variant, number, parameters>>, so that the atom 1 and the application *)
(* 1() with no parameters are different terms, as in the enum.             *)

EUFTerm_atom(atom) == <<"Atom", atom, << >> >>

EUFTerm_ap(function_atom, parameters) == <<"Application", function_atom, parameters>>

IsApplication(t) == t[1] = "Application"

EUFLiteral(is_equality, left, right) ==
    [is_equality |-> is_equality, left |-> left, right |-> right]

RECURSIVE Subterms(_)
Subterms(t) == {t} \cup UNION {Subterms(t[3][i]) : i \in 1..Len(t[3])}

\* compute_superterms: a key for every term and subterm of the literals; the
\* value of a key is the set of applications that have it as a parameter
compute_superterms(ls) ==
    LET keys == UNION {Subterms(ls[k].left) \cup Subterms(ls[k].right) : k \in 1..Len(ls)}
    IN  [t \in keys |-> {s \in keys : IsApplication(s) /\ \E i \in 1..Len(s[3]) : s[3][i] = t}]

\* superterms.get(t).unwrap_or(&empty_set)
SupertermsOf(st, t) == IF t \in DOMAIN st THEN st[t] ELSE {}

\* EUF::new
EUF_new(ls) ==
    [kind |-> "euf", lits |-> ls, superterms |-> compute_superterms(ls),
     equivs |-> {}, inequivs |-> {}]

\* EUF::to_euf_lit returning the bound literal as it is for a negated model
\* literal too
to_euf_lit_keeps_polarity(T, model_lit) == T.lits[Literal_get_id(model_lit)]

\* EUF::to_euf_lit (the binding is 0-based in the code, 1-based here)
to_euf_lit(T, model_lit) ==
    LET euf_lit == T.lits[Literal_get_id(model_lit)]
    IN  IF Literal_is_negated(model_lit)
        THEN EUFLiteral(~euf_lit.is_equality, euf_lit.left, euf_lit.right)
        ELSE euf_lit

-----------------------------------------------------------------------------
(* src/src/smt/euf.rs: the equivalence relation.  The map                  *)
(* BTreeMap<EUFTerm, BTreeSet<EUFTerm>> is the set of pairs <<a, b>> with  *)
(* b in rel[a]: an entry is only ever created together with a member.      *)

\* the frontier search of are_equal: the terms reachable from those seen
RECURSIVE Reachable(_, _)
Reachable(rel, frontier) ==
    Bind(frontier, LAMBDA seen :
        LET next == seen \cup {p[2] : p \in {q \in rel : q[1] \in seen}}
        IN  IF next = seen THEN seen ELSE Reachable(rel, next))

\* are_equal looking at rel[left] only, without the search beyond it
are_equal_one_step(rel, left, right) ==
    IF left = right THEN TRUE
    ELSE <<left, right>> \in rel

are_equal(rel, left, right) ==
    IF left = right THEN TRUE
    ELSE right \in Reachable(rel, {left})

\* are_unequal matching a pair of D in the orientation of its insertion only
are_unequal_one_orientation(rel, ineq, left, right) ==
    IF left = right THEN FALSE
    ELSE \E p \in ineq :
            are_equal(rel, left, p[1]) /\ are_equal(rel, right, p[2])

are_unequal(rel, ineq, left, right) ==
    IF left = right THEN FALSE
    ELSE \E p \in ineq :
            \/ are_equal(rel, left, p[1]) /\ are_equal(rel, right, p[2])
            \/ are_equal(rel, left, p[2]) /\ are_equal(rel, right, p[1])

\* the terms add_equiv's inner go builds from one superterm of term: every
\* nonempty choice of the parameters equal to term is replaced by equiv
Rewritten(superterm, term, equiv) ==
    LET ps == superterm[3]
        at == {i \in 1..Len(ps) : ps[i] = term}
    IN  {EUFTerm_ap(superterm[2], [i \in 1..Len(ps) |-> IF i \in I THEN equiv ELSE ps[i]]) :
            I \in (SUBSET at) \ {{}}}

\* add_equiv inserting right into rel[left] only, not left into rel[right]
RECURSIVE add_equiv_pairs_one_way(_, _, _)
add_equiv_pairs_one_way(st, left, right) ==
    LET from(term, equiv) ==
            UNION {UNION {add_equiv_pairs_one_way(st, s, n) :
                            n \in {x \in Rewritten(s, term, equiv) : x \in DOMAIN st}} :
                     s \in {x \in SupertermsOf(st, term) : IsApplication(x)}}
    IN  {<<left, right>>} \cup from(left, right) \cup from(right, left)

\* add_equiv making its recursive calls for the rewritten terms outside the
\* superterm index too
add_equiv_recursive_calls_unindexed(st, left, right) ==
    LET from(term, equiv) ==
            UNION {{<<s, n>> : n \in Rewritten(s, term, equiv)} :
                     s \in {x \in SupertermsOf(st, term) : IsApplication(x)}}
    IN  from(left, right) \cup from(right, left)

\* the arguments <<left, right>> of the recursive calls add_equiv(left,
\* right) makes itself: for every application among the superterms of one
\* side, the application and each of its rewritings that is a key of the
\* superterm index
add_equiv_recursive_calls(st, left, right) ==
    LET from(term, equiv) ==
            UNION {{<<s, n>> : n \in {x \in Rewritten(s, term, equiv) : x \in DOMAIN st}} :
                     s \in {x \in SupertermsOf(st, term) : IsApplication(x)}}
    IN  from(left, right) \cup from(right, left)

\* the pairs one add_equiv call inserts: add_equiv only inserts and never
\* reads rel, so its effect is the union of what its recursive calls insert
RECURSIVE add_equiv_pairs(_, _, _)
add_equiv_pairs(st, left, right) ==
    {<<left, right>>, <<right, left>>}
        \cup UNION {add_equiv_pairs(st, c[1], c[2]) : c \in add_equiv_recursive_calls(st, left, right)}

add_equiv(rel, st, left, right) == rel \cup add_equiv_pairs(st, left, right)

\* the pairs one round of infer_implicit_equalities collects
new_equivalences(rel, st) ==
    {p \in (DOMAIN st) \X (DOMAIN st) :
        /\ IsApplication(p[1]) /\ IsApplication(p[2])
        /\ p[1] # p[2]
        /\ p[1][2] = p[2][2]
        /\ Len(p[1][3]) = Len(p[2][3])
        /\ ~are_equal(rel, p[1], p[2])
        /\ \A i \in 1..Len(p[1][3]) : are_equal(rel, p[1][3][i], p[2][3][i])}

\* infer_implicit_equalities finding no new function equality
infer_implicit_equalities_finds_none(equivs, st) == equivs

RECURSIVE infer_implicit_equalities(_, _)
infer_implicit_equalities(equivs, st) ==
    Bind(equivs, LAMBDA rel :
        Bind(new_equivalences(rel, st), LAMBDA new :
            IF new = {} THEN rel
            ELSE infer_implicit_equalities(
                    rel \cup UNION {add_equiv_pairs(st, p[1], p[2]) : p \in new}, st)))

-----------------------------------------------------------------------------
(* src/src/smt/euf.rs: impl Theory for EUF.                                *)

\* EUF::decide with the two disequality arms answering as the equality arms
EUF_decide_ignores_polarity(T, model_lit) ==
    LET euf_lit == to_euf_lit(T, model_lit)
        eq == are_equal(T.equivs, euf_lit.left, euf_lit.right)
        ne == are_unequal(T.equivs, T.inequivs, euf_lit.left, euf_lit.right)
    IN  IF euf_lit.left = euf_lit.right
        THEN (IF euf_lit.is_equality THEN "SomeTrue" ELSE "SomeFalse")
        ELSE IF eq /\ ne THEN "Panic"
        ELSE IF ~eq /\ ~ne THEN "None"
        ELSE IF eq THEN "SomeTrue" ELSE "SomeFalse"

\* EUF::decide; "Panic" is the abort on a pair both equal and unequal
EUF_decide(T, model_lit) ==
    LET euf_lit == to_euf_lit(T, model_lit)
        eq == are_equal(T.equivs, euf_lit.left, euf_lit.right)
        ne == are_unequal(T.equivs, T.inequivs, euf_lit.left, euf_lit.right)
    IN  IF euf_lit.left = euf_lit.right
        THEN (IF euf_lit.is_equality THEN "SomeTrue" ELSE "SomeFalse")
        ELSE IF eq /\ ne THEN "Panic"
        ELSE IF ~eq /\ ~ne THEN "None"
        ELSE IF euf_lit.is_equality
             THEN (IF eq THEN "SomeTrue" ELSE "SomeFalse")
             ELSE (IF eq THEN "SomeFalse" ELSE "SomeTrue")

\* EUF::incorporate aborts on a disequality between identical terms
EUF_incorporate_panics(T, model_lit) ==
    LET el == to_euf_lit(T, model_lit)
    IN  ~el.is_equality /\ el.left = el.right

\* EUF::incorporate storing the last disequality only
EUF_incorporate_keeps_last_disequality(T, model_lit) ==
    LET el == to_euf_lit(T, model_lit)
    IN  IF el.is_equality
        THEN IF el.left = el.right
             THEN T
             ELSE [T EXCEPT !.equivs = infer_implicit_equalities(
                        add_equiv(T.equivs, T.superterms, el.left, el.right), T.superterms)]
        ELSE IF el.left = el.right
             THEN T
             ELSE [T EXCEPT !.inequivs = {<<el.left, el.right>>},
                            !.equivs = infer_implicit_equalities(T.equivs, T.superterms)]

\* EUF::incorporate
EUF_incorporate(T, model_lit) ==
    LET el == to_euf_lit(T, model_lit)
    IN  IF el.is_equality
        THEN IF el.left = el.right
             THEN T
             ELSE [T EXCEPT !.equivs = infer_implicit_equalities(
                        add_equiv(T.equivs, T.superterms, el.left, el.right), T.superterms)]
        ELSE IF el.left = el.right
             THEN T
             ELSE [T EXCEPT !.inequivs = T.inequivs \cup {<<el.left, el.right>>},
                            !.equivs = infer_implicit_equalities(T.equivs, T.superterms)]

\* EUF::forget emptying equivs only
EUF_forget_keeps_inequivs(T) == [T EXCEPT !.equivs = {}]

\* EUF::forget
EUF_forget(T) == [T EXCEPT !.equivs = {}, !.inequivs = {}]

-----------------------------------------------------------------------------
(* src/src/smt/empty.rs and the dispatch of the Theory trait               *)
(* (src/src/smt.rs).                                                       *)

EmptyTheory_new == [kind |-> "empty"]

\* EmptyTheory::decide answering Some(true)
EmptyTheory_decide_some_true(T, lit) == "SomeTrue"

EmptyTheory_decide(T, lit) == "None"

EmptyTheory_incorporate(T, lit) == T

EmptyTheory_forget(T) == T

Theory_decide(T, lit) ==
    IF T.kind = "euf" THEN EUF_decide(T, lit) ELSE EmptyTheory_decide(T, lit)

Theory_incorporate_panics(T, lit) ==
    IF T.kind = "euf" THEN EUF_incorporate_panics(T, lit) ELSE FALSE

Theory_incorporate(T, lit) ==
    IF T.kind = "euf" THEN EUF_incorporate(T, lit) ELSE EmptyTheory_incorporate(T, lit)

Theory_forget(T) ==
    IF T.kind = "euf" THEN EUF_forget(T) ELSE EmptyTheory_forget(T)

-----------------------------------------------------------------------------
(* src/src/dpll.rs: the steps of the search loop.                          *)

NoLiteral == [some |-> FALSE, lit |-> 0]

SomeLiteral(lit) == [some |-> TRUE, lit |-> lit]

\* do_backjump giving up when the last entry is no Decision
do_backjump_last_entry_only(m) ==
    IF Len(m) > 0 /\ m[Len(m)][2] = "Decision"
    THEN [ok |-> TRUE,
          model |-> Model_append(SubSeq(m, 1, Len(m) - 1),
                                 Literal_negate(m[Len(m)][1]), "Backjump")]
    ELSE [ok |-> FALSE, model |-> << >>]

\* do_backjump appending the flipped literal as a Decision again
RECURSIVE do_backjump_as_decision(_)
do_backjump_as_decision(m) ==
    Bind(m, LAMBDA trail :
        IF Len(trail) = 0
        THEN [ok |-> FALSE, model |-> trail]
        ELSE IF trail[Len(trail)][2] = "Decision"
             THEN [ok |-> TRUE,
                   model |-> Model_append(SubSeq(trail, 1, Len(trail) - 1),
                                          Literal_negate(trail[Len(trail)][1]), "Decision")]
             ELSE do_backjump_as_decision(SubSeq(trail, 1, Len(trail) - 1)))

\* do_backjump emptying the trail and reporting that no Decision was found
do_backjump_never(m) == [ok |-> FALSE, model |-> << >>]

\* do_backjump removing the most recent Decision but not the entries after it
do_backjump_pops_decision_only(m) ==
    LET decisions == {i \in 1..Len(m) : m[i][2] = "Decision"}
        last == CHOOSE i \in decisions : \A k \in decisions : k <= i
    IN  IF decisions = {}
        THEN [ok |-> FALSE, model |-> << >>]
        ELSE [ok |-> TRUE,
              model |-> Model_append(SubSeq(m, 1, last - 1) \o SubSeq(m, last + 1, Len(m)),
                                     Literal_negate(m[last][1]), "Backjump")]

\* do_backjump leaving the Decision it stops at on the trail
RECURSIVE do_backjump_keeps_decision(_)
do_backjump_keeps_decision(m) ==
    Bind(m, LAMBDA trail :
        IF Len(trail) = 0
        THEN [ok |-> FALSE, model |-> trail]
        ELSE IF trail[Len(trail)][2] = "Decision"
             THEN [ok |-> TRUE,
                   model |-> Model_append(trail, Literal_negate(trail[Len(trail)][1]),
                                          "Backjump")]
             ELSE do_backjump_keeps_decision(SubSeq(trail, 1, Len(trail) - 1)))

\* do_backjump: pops until a Decision was popped; the trail is left empty
\* when there was none
RECURSIVE do_backjump(_)
do_backjump(m) ==
    Bind(m, LAMBDA trail :
        IF Len(trail) = 0
        THEN [ok |-> FALSE, model |-> trail]
        ELSE LET last == trail[Len(trail)]
                 rest == SubSeq(trail, 1, Len(trail) - 1)
             IN  IF last[2] = "Decision"
                 THEN [ok |-> TRUE,
                       model |-> Model_append(rest, Literal_negate(last[1]), "Backjump")]
                 ELSE do_backjump(rest))

\* lits.iter().filter(|l| *l != lit)
lits_without_lit(clits, lit) == SelectSeq(clits, LAMBDA l : l # lit)

\* do_unit_propagation removing only the occurrence at hand of the literal
RECURSIVE do_unit_propagation_from_removes_one_occurrence(_, _, _, _)
do_unit_propagation_from_removes_one_occurrence(m, clauses, c, l) ==
    IF c > Len(clauses) THEN NoLiteral
    ELSE IF Clause_is_true_in(clauses[c], m) # "None" \/ l > Len(clauses[c])
         THEN do_unit_propagation_from_removes_one_occurrence(m, clauses, c + 1, 1)
         ELSE IF /\ Literal_is_true_in(clauses[c][l], m) = "None"
                 /\ Clause_is_true_in(SubSeq(clauses[c], 1, l - 1)
                                        \o SubSeq(clauses[c], l + 1, Len(clauses[c])), m)
                        = "SomeFalse"
              THEN SomeLiteral(clauses[c][l])
              ELSE do_unit_propagation_from_removes_one_occurrence(m, clauses, c, l + 1)

\* do_unit_propagation, scanning from literal l of clause c
RECURSIVE do_unit_propagation_from(_, _, _, _)
do_unit_propagation_from(m, clauses, c, l) ==
    IF c > Len(clauses) THEN NoLiteral
    ELSE IF Clause_is_true_in(clauses[c], m) # "None" \/ l > Len(clauses[c])
         THEN do_unit_propagation_from(m, clauses, c + 1, 1)
         ELSE IF /\ Literal_is_true_in(clauses[c][l], m) = "None"
                 /\ Clause_is_true_in(lits_without_lit(clauses[c], clauses[c][l]), m)
                        = "SomeFalse"
              THEN SomeLiteral(clauses[c][l])
              ELSE do_unit_propagation_from(m, clauses, c, l + 1)

do_unit_propagation(m, clauses) == do_unit_propagation_from(m, clauses, 1, 1)

\* do_theory_propagation returning the literal itself when decide answers
\* Some(false)
RECURSIVE do_theory_propagation_from_unnegated(_, _, _, _, _)
do_theory_propagation_from_unnegated(T, m, clauses, c, l) ==
    IF c > Len(clauses) THEN [some |-> FALSE, lit |-> 0, panic |-> FALSE]
    ELSE IF l > Len(clauses[c])
         THEN do_theory_propagation_from_unnegated(T, m, clauses, c + 1, 1)
         ELSE LET lit == clauses[c][l]
                  d == IF Literal_is_true_in(lit, m) = "None"
                       THEN Theory_decide(T, lit) ELSE "None"
              IN  IF d = "SomeTrue" \/ d = "SomeFalse"
                  THEN [some |-> TRUE, lit |-> lit, panic |-> FALSE]
                  ELSE IF d = "Panic"
                       THEN [some |-> FALSE, lit |-> 0, panic |-> TRUE]
                       ELSE do_theory_propagation_from_unnegated(T, m, clauses, c, l + 1)

\* do_theory_propagation passing over the clauses that are true in the model
RECURSIVE do_theory_propagation_from_skips_true_clauses(_, _, _, _, _)
do_theory_propagation_from_skips_true_clauses(T, m, clauses, c, l) ==
    IF c > Len(clauses) THEN [some |-> FALSE, lit |-> 0, panic |-> FALSE]
    ELSE IF Clause_is_true_in(clauses[c], m) = "SomeTrue" \/ l > Len(clauses[c])
         THEN do_theory_propagation_from_skips_true_clauses(T, m, clauses, c + 1, 1)
         ELSE LET lit == clauses[c][l]
                  d == IF Literal_is_true_in(lit, m) = "None"
                       THEN Theory_decide(T, lit) ELSE "None"
              IN  IF d = "SomeTrue" THEN [some |-> TRUE, lit |-> lit, panic |-> FALSE]
                  ELSE IF d = "SomeFalse"
                       THEN [some |-> TRUE, lit |-> Literal_negate(lit), panic |-> FALSE]
                       ELSE IF d = "Panic"
                            THEN [some |-> FALSE, lit |-> 0, panic |-> TRUE]
                            ELSE do_theory_propagation_from_skips_true_clauses(
                                    T, m, clauses, c, l + 1)

\* do_theory_propagation scanning the first clause only
RECURSIVE do_theory_propagation_from_first_clause_only(_, _, _, _, _)
do_theory_propagation_from_first_clause_only(T, m, clauses, c, l) ==
    IF c > Len(clauses) \/ c > 1 THEN [some |-> FALSE, lit |-> 0, panic |-> FALSE]
    ELSE IF l > Len(clauses[c])
         THEN do_theory_propagation_from_first_clause_only(T, m, clauses, c + 1, 1)
         ELSE LET lit == clauses[c][l]
                  d == IF Literal_is_true_in(lit, m) = "None"
                       THEN Theory_decide(T, lit) ELSE "None"
              IN  IF d = "SomeTrue" THEN [some |-> TRUE, lit |-> lit, panic |-> FALSE]
                  ELSE IF d = "SomeFalse"
                       THEN [some |-> TRUE, lit |-> Literal_negate(lit), panic |-> FALSE]
                       ELSE IF d = "Panic"
                            THEN [some |-> FALSE, lit |-> 0, panic |-> TRUE]
                            ELSE do_theory_propagation_from_first_clause_only(
                                    T, m, clauses, c, l + 1)

\* do_theory_propagation, scanning from literal l of clause c; panic is set
\* when theory.decide aborts
RECURSIVE do_theory_propagation_from(_, _, _, _, _)
do_theory_propagation_from(T, m, clauses, c, l) ==
    IF c > Len(clauses) THEN [some |-> FALSE, lit |-> 0, panic |-> FALSE]
    ELSE IF l > Len(clauses[c])
         THEN do_theory_propagation_from(T, m, clauses, c + 1, 1)
         ELSE LET lit == clauses[c][l]
                  d == IF Literal_is_true_in(lit, m) = "None"
                       THEN Theory_decide(T, lit) ELSE "None"
              IN  IF d = "SomeTrue" THEN [some |-> TRUE, lit |-> lit, panic |-> FALSE]
                  ELSE IF d = "SomeFalse"
                       THEN [some |-> TRUE, lit |-> Literal_negate(lit), panic |-> FALSE]
                       ELSE IF d = "Panic"
                            THEN [some |-> FALSE, lit |-> 0, panic |-> TRUE]
                            ELSE do_theory_propagation_from(T, m, clauses, c, l + 1)

do_theory_propagation(T, m, clauses) == do_theory_propagation_from(T, m, clauses, 1, 1)

\* the literals do_theory_propagation passes to theory.decide, scanning from
\* literal l of clause c
RECURSIVE do_theory_propagation_queries(_, _, _, _, _)
do_theory_propagation_queries(T, m, clauses, c, l) ==
    IF c > Len(clauses) THEN {}
    ELSE IF l > Len(clauses[c])
         THEN do_theory_propagation_queries(T, m, clauses, c + 1, 1)
         ELSE IF Literal_is_true_in(clauses[c][l], m) = "None"
              THEN {clauses[c][l]} \cup
                   (IF Theory_decide(T, clauses[c][l]) = "None"
                    THEN do_theory_propagation_queries(T, m, clauses, c, l + 1)
                    ELSE {})
              ELSE do_theory_propagation_queries(T, m, clauses, c, l + 1)

\* do_decision looking for an unassigned literal in the first clause only
do_decision_from_first_clause_only(m, clauses, c, l) ==
    IF Len(clauses) = 0 \/ Clause_is_true_in(clauses[1], m) # "None" THEN NoLiteral
    ELSE LET unassigned == {k \in 1..Len(clauses[1]) :
                                Literal_is_true_in(clauses[1][k], m) = "None"}
             first == CHOOSE k \in unassigned : \A k2 \in unassigned : k <= k2
         IN  IF unassigned = {} THEN NoLiteral
             ELSE SomeLiteral(Literal_new(Literal_get_id(clauses[1][first])).lit)

\* do_decision returning the unassigned literal as the clause writes it
RECURSIVE do_decision_from_as_written(_, _, _, _)
do_decision_from_as_written(m, clauses, c, l) ==
    IF c > Len(clauses) THEN NoLiteral
    ELSE IF Clause_is_true_in(clauses[c], m) # "None" \/ l > Len(clauses[c])
         THEN do_decision_from_as_written(m, clauses, c + 1, 1)
         ELSE IF Literal_is_true_in(clauses[c][l], m) = "None"
              THEN SomeLiteral(clauses[c][l])
              ELSE do_decision_from_as_written(m, clauses, c, l + 1)

\* do_decision, scanning from literal l of clause c
RECURSIVE do_decision_from(_, _, _, _)
do_decision_from(m, clauses, c, l) ==
    IF c > Len(clauses) THEN NoLiteral
    ELSE IF Clause_is_true_in(clauses[c], m) # "None" \/ l > Len(clauses[c])
         THEN do_decision_from(m, clauses, c + 1, 1)
         ELSE IF Literal_is_true_in(clauses[c][l], m) = "None"
              THEN SomeLiteral(Literal_new(Literal_get_id(clauses[c][l])).lit)
              ELSE do_decision_from(m, clauses, c, l + 1)

do_decision(m, clauses) == do_decision_from(m, clauses, 1, 1)

\* one theory.incorporate(lit) call as the loop makes it: the call is logged
\* with what theory.decide(lit) answers in the state it is made in
incorporate_call(T, lit) ==
    [theory |-> Theory_incorporate(T, lit),
     call |-> [lit |-> lit, decided |-> Theory_decide(T, lit)],
     panic |-> Theory_incorporate_panics(T, lit)]

\* the loop of reset_theory over the trail, from entry i; it stops at an
\* incorporate that aborts
RECURSIVE reset_theory_from(_, _, _, _)
reset_theory_from(T, m, i, log) ==
    Bind(<<T, log>>, LAMBDA s :
        IF i > Len(m) THEN [theory |-> s[1], calls |-> s[2], panic |-> FALSE]
        ELSE Bind(incorporate_call(s[1], m[i][1]), LAMBDA r :
                IF r.panic
                THEN [theory |-> s[1], calls |-> Append(s[2], r.call), panic |-> TRUE]
                ELSE reset_theory_from(r.theory, m, i + 1, Append(s[2], r.call))))

\* reset_theory replaying the trail without theory.forget()
reset_theory_without_forget(T, m) == reset_theory_from(T, m, 1, << >>)

reset_theory(T, m) == reset_theory_from(Theory_forget(T), m, 1, << >>)

-----------------------------------------------------------------------------
(* src/src/dpll.rs: asymmetric tautology elimination.                      *)

SeqToSet(s) == {s[i] : i \in 1..Len(s)}

\* the scan of the ALA loop without the i == j test: a clause is compared
\* with itself
RECURSIVE ala_scan_with_itself(_, _, _, _, _, _)
ala_scan_with_itself(clauses, deleted, i, ate_lits_set, j, l) ==
    IF j > Len(clauses) THEN [what |-> "stop", lit |-> 0]
    ELSE IF deleted[j] \/ l > Len(clauses[j])
         THEN ala_scan_with_itself(clauses, deleted, i, ate_lits_set, j + 1, 1)
         ELSE LET el == clauses[j][l]
                  els_without_el == SeqToSet(clauses[j]) \ {el}
              IN  IF Literal_negate(el) \in ate_lits_set
                  THEN ala_scan_with_itself(clauses, deleted, i, ate_lits_set, j, l + 1)
                  ELSE IF els_without_el \subseteq ate_lits_set
                       THEN IF el \in ate_lits_set
                            THEN [what |-> "delete", lit |-> el]
                            ELSE [what |-> "push", lit |-> Literal_negate(el)]
                       ELSE ala_scan_with_itself(clauses, deleted, i, ate_lits_set, j, l + 1)

\* the scan of the ALA loop marking the clause deleted whenever a clause
\* applies, without the ate_lits_set.contains(&el) test
RECURSIVE ala_scan_always_deletes(_, _, _, _, _, _)
ala_scan_always_deletes(clauses, deleted, i, ate_lits_set, j, l) ==
    IF j > Len(clauses) THEN [what |-> "stop", lit |-> 0]
    ELSE IF i = j \/ deleted[j] \/ l > Len(clauses[j])
         THEN ala_scan_always_deletes(clauses, deleted, i, ate_lits_set, j + 1, 1)
         ELSE LET el == clauses[j][l]
                  els_without_el == SeqToSet(clauses[j]) \ {el}
              IN  IF Literal_negate(el) \in ate_lits_set
                  THEN ala_scan_always_deletes(clauses, deleted, i, ate_lits_set, j, l + 1)
                  ELSE IF els_without_el \subseteq ate_lits_set
                       THEN [what |-> "delete", lit |-> el]
                       ELSE ala_scan_always_deletes(clauses, deleted, i, ate_lits_set, j, l + 1)

\* one scan of the ALA loop of clause i over the literals of the other
\* clauses, from literal l of clause j: "delete", "push" with the literal to
\* push, or "stop" when no clause applies
RECURSIVE ala_scan(_, _, _, _, _, _)
ala_scan(clauses, deleted, i, ate_lits_set, j, l) ==
    IF j > Len(clauses) THEN [what |-> "stop", lit |-> 0]
    ELSE IF i = j \/ deleted[j] \/ l > Len(clauses[j])
         THEN ala_scan(clauses, deleted, i, ate_lits_set, j + 1, 1)
         ELSE LET el == clauses[j][l]
                  els_without_el == SeqToSet(clauses[j]) \ {el}
              IN  IF Literal_negate(el) \in ate_lits_set
                  THEN ala_scan(clauses, deleted, i, ate_lits_set, j, l + 1)
                  ELSE IF els_without_el \subseteq ate_lits_set
                       THEN IF el \in ate_lits_set
                            THEN [what |-> "delete", lit |-> el]
                            ELSE [what |-> "push", lit |-> Literal_negate(el)]
                       ELSE ala_scan(clauses, deleted, i, ate_lits_set, j, l + 1)

\* the 'ala loop of clause i: whether the clause is marked deleted
RECURSIVE ala_deletes(_, _, _, _)
ala_deletes(clauses, deleted, i, lits) ==
    Bind(lits, LAMBDA ate_lits :
        Bind(ala_scan(clauses, deleted, i, SeqToSet(ate_lits), 1, 1), LAMBDA r :
            IF r.what = "delete" THEN TRUE
            ELSE IF r.what = "push"
                 THEN ala_deletes(clauses, deleted, i, Append(ate_lits, r.lit))
                 ELSE FALSE))

\* the outer loop over the clauses, from clause i
RECURSIVE ate_deleted_clauses(_, _, _)
ate_deleted_clauses(clauses, flags, i) ==
    Bind(flags, LAMBDA deleted :
        IF i > Len(clauses) THEN deleted
        ELSE ate_deleted_clauses(
                clauses,
                [deleted EXCEPT ![i] = ala_deletes(clauses, deleted, i, clauses[i])],
                i + 1))

\* the clauses that are not deleted, the last of them first
RECURSIVE KeepClauses_in_reverse(_, _, _)
KeepClauses_in_reverse(clauses, deleted, i) ==
    IF i > Len(clauses) THEN << >>
    ELSE IF deleted[i] THEN KeepClauses_in_reverse(clauses, deleted, i + 1)
         ELSE KeepClauses_in_reverse(clauses, deleted, i + 1) \o <<clauses[i]>>

\* the subsequence of the clauses whose index satisfies keep
RECURSIVE KeepClauses(_, _, _)
KeepClauses(clauses, deleted, i) ==
    IF i > Len(clauses) THEN << >>
    ELSE IF deleted[i] THEN KeepClauses(clauses, deleted, i + 1)
         ELSE <<clauses[i]>> \o KeepClauses(clauses, deleted, i + 1)

asymmetric_tautology_elimination(clauses) ==
    KeepClauses(clauses,
                ate_deleted_clauses(clauses, [i \in 1..Len(clauses) |-> FALSE], 1),
                1)

simplify_formula(clauses) == asymmetric_tautology_elimination(clauses)

-----------------------------------------------------------------------------
(* The inputs the runs are drawn from.                                     *)

\* the atoms of the input formulas: those the bindings below bind
InputAtoms == {1, 2}

InputLiterals == InputAtoms \cup {0 - a : a \in InputAtoms}

\* empty, unit and binary clauses, with duplicates and complementary pairs
InputClauses == UNION {[1..k -> InputLiterals] : k \in 0..2}

RECURSIVE CountLits(_, _)
CountLits(clauses, i) ==
    IF i > Len(clauses) THEN 0 ELSE Len(clauses[i]) + CountLits(clauses, i + 1)

InputFormulas(maxlits) ==
    {f \in UNION {[1..k -> InputClauses] : k \in 0..MaxClauses} : CountLits(f, 1) <= maxlits}

\* the formulas tried with each EUF binding
EUFFormulas == InputFormulas(MaxLits)

\* the formulas tried with the empty theory: its runs are cheap, so its
\* formulas may hold two literal occurrences more
EmptyFormulas == InputFormulas(MaxLits + 2)

\* the four binary clauses over two atoms, in every order and with
\* repetition: the formulas that need decisions and backjumps
SearchClauses == {<<1, 2>>, <<1, -2>>, <<-1, 2>>, <<-1, -2>>}

SearchFormulas == [1..(MaxClauses + 1) -> SearchClauses]

\* the formulas of the repository's tests (src/src/lib.rs, tests)
TestFormulas ==
    {<< <<1>> >>,
     << <<1, 2>> >>,
     << <<-1>>, <<1, -2>> >>,
     << <<1, 2>>, <<3>> >>,
     << <<1>>, <<-1>> >>,
     << <<1>>, <<2>>, <<-1, -2>> >>,
     << <<-3, 4>>, <<-1, -3, -5>>, <<-2, -4, -5>>, <<-2, 3, 5, -6>>,
        <<-1, 2>>, <<-1, 3, -5, -6>>, <<1, -6>>, <<1, 7>> >>}

ta == EUFTerm_atom(1)
tb == EUFTerm_atom(2)
tc == EUFTerm_atom(3)
fa == EUFTerm_ap(1, <<ta>>)
fb == EUFTerm_ap(1, <<tb>>)
fab == EUFTerm_ap(1, <<ta, tb>>)

\* 1: f(a) == f(b), 2: a == b
BindingCongruence == <<EUFLiteral(TRUE, fa, fb), EUFLiteral(TRUE, ta, tb)>>

\* 1: a == b, 2: b /= a
BindingOpposite == <<EUFLiteral(TRUE, ta, tb), EUFLiteral(FALSE, tb, ta)>>

\* 1: a == a, 2: f(a) /= f(b)
BindingIdentical == <<EUFLiteral(TRUE, ta, ta), EUFLiteral(FALSE, fa, fb)>>

\* the bindings of propositional atoms to EUF literals tried with every formula
Bindings == {BindingCongruence, BindingOpposite, BindingIdentical}

\* the binding of the EUF scenario of the test data:
\* 1: f(a,b) == a, 2: f(b) == g(a), 3: f(f(a,b),b) == c, 4: a == c
BindingScenario ==
    <<EUFLiteral(TRUE, fab, ta),
      EUFLiteral(TRUE, fb, EUFTerm_ap(2, <<ta>>)),
      EUFLiteral(TRUE, EUFTerm_ap(1, <<fab, tb>>), tc),
      EUFLiteral(TRUE, ta, tc)>>

\* the clauses of the scenario's formulas, taken in every order
ScenarioClauses == {<<1>>, <<2>>, <<3>>, <<4>>, <<-4>>, <<-4, 4>>}

ScenarioFormulas == UNION {[1..k -> ScenarioClauses] : k \in 0..(MaxClauses + 1)}

\* 1: f(a) == f(b), 2: a == b, 3: c == f(a), 4: c == f(b)
BindingChain ==
    <<EUFLiteral(TRUE, fa, fb), EUFLiteral(TRUE, ta, tb),
      EUFLiteral(TRUE, tc, fa), EUFLiteral(TRUE, tc, fb)>>

\* unit clauses denying the first and asserting the other literals of
\* BindingChain, taken in every order
ChainClauses == {<<-1>>, <<2>>, <<3>>, <<4>>}

\* binary clauses over BindingChain whose second literal the theory decides
\* once the first is on the trail
ChainPairs == {<<2, 1>>, <<1, 2>>, <<3, 4>>, <<4, 3>>}

ChainFormulas == [1..(MaxClauses + 1) -> ChainClauses] \cup [1..2 -> ChainPairs]

\* from_string has not been called
NoDimacs == [input |-> << >>, in_prelude |-> TRUE,
             expected_number_of_variables |-> 0, expected_number_of_clauses |-> 0,
             clause |-> << >>, clauses |-> << >>, variables |-> 0,
             result |-> [kind |-> "none", error |-> "", formula |-> << >>]]

NoEval == [op |-> "none", lit |-> 0, clause |-> << >>, res |-> "None", out |-> << >>]

-----------------------------------------------------------------------------
(* The run of dpll: one action per arm of the loop.                        *)
(* The formulas of the runs are built from literals whose negation is      *)
(* representable; the literal of atom isize::MIN, on which negate and       *)
(* get_id overflow, is the subject of LiteralSpec.                          *)

Init ==
    /\ \/ /\ theory = EmptyTheory_new
          /\ formula0 \in EmptyFormulas \cup SearchFormulas \cup TestFormulas
       \/ /\ \E b \in Bindings : theory = EUF_new(b)
          /\ formula0 \in EUFFormulas \cup SearchFormulas
       \/ /\ theory = EUF_new(BindingScenario)
          /\ formula0 \in ScenarioFormulas
       \/ /\ theory = EUF_new(BindingChain)
          /\ formula0 \in ChainFormulas
    /\ formula = formula0
    /\ model = Model_new
    /\ pc = "start"
    /\ calls = << >>
    /\ did = {}
    /\ evald = NoEval
    /\ dimacs = NoDimacs

\* dpll, line 213: the pre-pass
Simplify ==
    /\ pc = "start"
    /\ formula' = simplify_formula(formula0)
    /\ pc' = "loop"
    /\ calls' = << >>
    /\ UNCHANGED <<dimacs, theory, formula0, model, did, evald>>

\* model.append(lit, provenance); theory.incorporate(lit); continue
Extend(lit, provenance) ==
    \E r \in {incorporate_call(theory, lit)} :
        /\ model' = Model_append(model, lit, provenance)
        /\ theory' = IF r.panic THEN theory ELSE r.theory
        /\ calls' = <<r.call>>
        /\ pc' = IF r.panic THEN "panic_incorporate" ELSE "loop"
        /\ did' = did \cup {provenance}
        /\ UNCHANGED <<dimacs, formula0, formula, evald>>

\* Some(true) => break
ReturnModel ==
    /\ pc = "loop"
    /\ Formula_is_true_in(formula, model) = "SomeTrue"
    /\ pc' = "sat"
    /\ calls' = << >>
    /\ UNCHANGED <<dimacs, theory, formula0, formula, model, did, evald>>

\* Some(false), do_backjump succeeds: reset_theory and continue
Backjump ==
    /\ pc = "loop"
    /\ Formula_is_true_in(formula, model) = "SomeFalse"
    /\ do_backjump(model).ok
    /\ \E m \in {do_backjump(model).model} : \E r \in {reset_theory(theory, m)} :
           /\ model' = m
           /\ theory' = r.theory
           /\ calls' = r.calls
           /\ pc' = IF r.panic THEN "panic_incorporate" ELSE "loop"
    /\ did' = did \cup {"Backjump"}
    /\ UNCHANGED <<dimacs, formula0, formula, evald>>

\* Some(false), do_backjump fails: return None
ReturnUnsat ==
    /\ pc = "loop"
    /\ Formula_is_true_in(formula, model) = "SomeFalse"
    /\ ~do_backjump(model).ok
    /\ model' = do_backjump(model).model
    /\ pc' = "unsat"
    /\ calls' = << >>
    /\ UNCHANGED <<dimacs, theory, formula0, formula, did, evald>>

\* None, do_theory_propagation yields a literal (or theory.decide aborts)
TheoryPropagate ==
    /\ pc = "loop"
    /\ Formula_is_true_in(formula, model) = "None"
    /\ \E tp \in {do_theory_propagation(theory, model, formula)} :
           /\ tp.some \/ tp.panic
           /\ IF tp.panic
              THEN /\ pc' = "panic_decide"
                   /\ calls' = << >>
                   /\ UNCHANGED <<dimacs, theory, formula0, formula, model, did, evald>>
              ELSE Extend(tp.lit, "TheoryPropagation")

\* None, no theory propagation, do_unit_propagation yields a literal
UnitPropagate ==
    /\ pc = "loop"
    /\ Formula_is_true_in(formula, model) = "None"
    /\ \E tp \in {do_theory_propagation(theory, model, formula)} :
       \E up \in {do_unit_propagation(model, formula)} :
           /\ ~tp.some /\ ~tp.panic
           /\ up.some
           /\ Extend(up.lit, "UnitPropagation")

\* None, no propagation: do_decision yields a literal, or the loop aborts
Decide ==
    /\ pc = "loop"
    /\ Formula_is_true_in(formula, model) = "None"
    /\ \E tp \in {do_theory_propagation(theory, model, formula)} :
       \E up \in {do_unit_propagation(model, formula)} :
       \E dd \in {do_decision(model, formula)} :
           /\ ~tp.some /\ ~tp.panic
           /\ ~up.some
           /\ IF dd.some
              THEN Extend(dd.lit, "Decision")
              ELSE /\ pc' = "panic_incomplete"
                   /\ calls' = << >>
                   /\ UNCHANGED <<dimacs, theory, formula0, formula, model, did, evald>>

Next ==
    \/ Simplify
    \/ ReturnModel
    \/ Backjump
    \/ ReturnUnsat
    \/ TheoryPropagate
    \/ UnitPropagate
    \/ Decide

Spec == Init /\ [][Next]_vars

\* the loop has no suspension point: an enabled step is taken
FairSpec == Spec /\ WF_vars(Next)

-----------------------------------------------------------------------------
(* The three-valued evaluation on its own: Literal::is_true_in,            *)
(* Clause::is_true_in and Formula::is_true_in applied to the formulas of   *)
(* EvalFormulas under every trail the search can build over their atoms (a *)
(* literal is appended only while it is unassigned).                       *)

EvalFormulas == UNION {[1..k -> InputClauses] : k \in 0..MaxEvalClauses}

EvalInit ==
    /\ theory = EmptyTheory_new
    /\ formula0 \in EvalFormulas
    /\ formula = formula0
    /\ model = Model_new
    /\ pc = "eval"
    /\ calls = << >>
    /\ did = {}
    /\ evald = NoEval
    /\ dimacs = NoDimacs

\* model.append(lit, provenance), as the loop calls it
EvalAppend ==
    /\ pc = "eval"
    /\ \E lit \in InputLiterals :
        /\ Literal_is_true_in(lit, model) = "None"
        /\ model' = Model_append(model, lit, "Decision")
    /\ evald' = NoEval
    /\ UNCHANGED <<dimacs, theory, formula0, formula, pc, calls, did>>

\* lit.is_true_in(&model)
EvalLiteral ==
    /\ pc = "eval"
    /\ \E lit \in InputLiterals :
        evald' = [op |-> "literal", lit |-> lit, clause |-> << >>,
                  res |-> Literal_is_true_in(lit, model), out |-> << >>]
    /\ UNCHANGED <<dimacs, theory, formula0, formula, model, pc, calls, did>>

\* clause.is_true_in(&model)
EvalClause ==
    /\ pc = "eval"
    /\ \E i \in 1..Len(formula) :
        evald' = [op |-> "clause", lit |-> 0, clause |-> formula[i],
                  res |-> Clause_is_true_in(formula[i], model), out |-> << >>]
    /\ UNCHANGED <<dimacs, theory, formula0, formula, model, pc, calls, did>>

\* formula.is_true_in(&model)
EvalFormula ==
    /\ pc = "eval"
    /\ evald' = [op |-> "formula", lit |-> 0, clause |-> << >>,
                 res |-> Formula_is_true_in(formula, model), out |-> << >>]
    /\ UNCHANGED <<dimacs, theory, formula0, formula, model, pc, calls, did>>

EvalNext ==
    \/ EvalAppend
    \/ EvalLiteral
    \/ EvalClause
    \/ EvalFormula

EvalSpec == EvalInit /\ [][EvalNext]_vars

-----------------------------------------------------------------------------
(* The operations of Literal on their own, for every isize and both builds. *)

LiteralInit ==
    /\ theory = EmptyTheory_new
    /\ formula0 = << >>
    /\ formula = formula0
    /\ model = Model_new
    /\ pc = "literal"
    /\ calls = << >>
    /\ did = {}
    /\ evald = NoEval
    /\ dimacs = NoDimacs

\* let l = Literal::new(atom); then l.negate(), l.negate().negate(),
\* l.get_id() and l.negate().get_id(), in the given build: res is "Panic"
\* when one of the calls aborts, and out holds the four values otherwise
EvalLiteralOps ==
    /\ pc = "literal"
    /\ \E atom \in Isize : \E build \in Builds :
        LET l == Literal_new(atom)
            aborts == \/ l.panic
                      \/ /\ build = "debug"
                         /\ \/ Literal_negate_overflows(l.lit)
                            \/ Literal_negate_overflows(Literal_negate(l.lit))
                            \/ Literal_get_id_overflows(l.lit)
                            \/ Literal_get_id_overflows(Literal_negate(l.lit))
        IN  evald' = [op |-> "literal_ops", lit |-> atom, clause |-> << >>,
                      res |-> IF aborts THEN "Panic" ELSE "SomeTrue",
                      out |-> IF aborts THEN << >>
                              ELSE <<Literal_negate(l.lit),
                                     Literal_negate(Literal_negate(l.lit)),
                                     Literal_get_id(l.lit),
                                     Literal_get_id(Literal_negate(l.lit))>>]
    /\ UNCHANGED <<dimacs, theory, formula0, formula, model, pc, calls, did>>

LiteralNext == EvalLiteralOps

LiteralSpec == LiteralInit /\ [][LiteralNext]_vars

-----------------------------------------------------------------------------
(* The EUF theory on its own: any sequence of decide, incorporate and      *)
(* forget calls on a theory built by EUF::new.                             *)

\* 1: a == b, 2: b == c, 3: f(a) /= f(c)
BindingTransitive ==
    <<EUFLiteral(TRUE, ta, tb), EUFLiteral(TRUE, tb, tc),
      EUFLiteral(FALSE, fa, EUFTerm_ap(1, <<tc>>))>>

EUFBindings == Bindings \cup {BindingScenario, BindingTransitive}

\* the model literals a theory has a binding for
BoundLiterals(T) == {l \in Isize : l # 0 /\ Literal_get_id(l) \in 1..Len(T.lits)}

EUFInit ==
    /\ \E b \in EUFBindings : theory = EUF_new(b)
    /\ formula0 = << >>
    /\ formula = formula0
    /\ model = Model_new
    /\ pc = "euf"
    /\ calls = {}
    /\ did = {}
    /\ evald = NoEval
    /\ dimacs = NoDimacs

\* theory.decide(lit): takes &self; the run ends when decide aborts
EUFDecide ==
    /\ pc = "euf"
    /\ \E lit \in BoundLiterals(theory) :
        evald' = [op |-> "decide", lit |-> lit, clause |-> << >>,
                  res |-> EUF_decide(theory, lit), out |-> << >>]
    /\ pc' = IF evald'.res = "Panic" THEN "panic_decide" ELSE pc
    /\ UNCHANGED <<dimacs, theory, formula0, formula, model, calls, did>>

\* theory.incorporate(lit); res is what decide answered just before the call,
\* and calls is the set of literals incorporated since EUF::new or the last
\* forget
EUFIncorporate ==
    /\ pc = "euf"
    /\ \E lit \in BoundLiterals(theory) :
        /\ evald' = [op |-> "incorporate", lit |-> lit, clause |-> << >>,
                     res |-> EUF_decide(theory, lit), out |-> << >>]
        /\ IF EUF_incorporate_panics(theory, lit)
           THEN pc' = "panic_incorporate" /\ theory' = theory /\ calls' = calls
           ELSE /\ pc' = pc
                /\ theory' = EUF_incorporate(theory, lit)
                /\ calls' = calls \cup {lit}
    /\ did' = did \cup {"incorporate"}
    /\ UNCHANGED <<dimacs, formula0, formula, model>>

\* theory.forget()
EUFForget ==
    /\ pc = "euf"
    /\ theory' = EUF_forget(theory)
    /\ evald' = [op |-> "forget", lit |-> 0, clause |-> << >>, res |-> "None",
                 out |-> << >>]
    /\ calls' = {}
    /\ did' = did \cup {"forget"}
    /\ UNCHANGED <<dimacs, formula0, formula, model, pc>>

EUFNext ==
    \/ EUFDecide
    \/ EUFIncorporate
    \/ EUFForget

EUFSpec == EUFInit /\ [][EUFNext]_vars

-----------------------------------------------------------------------------
(* src/src/dimacs.rs: from_string.  The text is a sequence of lines        *)
(* (dimacs.lines()), a line the sequence of its words                      *)
(* (split_ascii_whitespace), a word a string.                              *)

\* str::parse::<isize> on the words that are decimal integers; every other
\* word is an Err
parse_isize == ("0" :> 0) @@ ("1" :> 1) @@ ("2" :> 2) @@ ("-1" :> (0 - 1)) @@ ("-2" :> (0 - 2))

parse_isize_is_ok(word) == word \in DOMAIN parse_isize

\* str::parse::<usize>: a sign '-' is an Err
parse_usize_is_ok(word) == parse_isize_is_ok(word) /\ parse_isize[word] >= 0

\* words.next() at position i of the line; "" stands for None
words_next(line, i) == IF i <= Len(line) THEN line[i] ELSE ""

\* Clause::new: Literal::new on every number
Clause_new(lits) == [i \in 1..Len(lits) |-> Literal_new(lits[i]).lit]

\* Formula::new
Formula_new(clauses) == clauses

\* return Err(e) / Ok(formula)
ParseErr(d, e) == [d EXCEPT !.result = [kind |-> "Err", error |-> e, formula |-> << >>]]

ParseOk(d, f) == [d EXCEPT !.result = [kind |-> "Ok", error |-> "", formula |-> f]]

\* the body of the for loop for a line read while in_prelude
from_string_prelude_line(d, line) ==
    LET prefix == words_next(line, 1)
        fmt == words_next(line, 2)
        num_vars == words_next(line, 3)
        num_clauses == words_next(line, 4)
    IN  IF prefix = "c" THEN d
        ELSE IF prefix = "p"
        THEN IF fmt = "cnf"
             THEN IF /\ num_vars # "" /\ parse_usize_is_ok(num_vars)
                     /\ num_clauses # "" /\ parse_usize_is_ok(num_clauses)
                  THEN [d EXCEPT !.expected_number_of_variables = parse_isize[num_vars],
                                 !.expected_number_of_clauses = parse_isize[num_clauses],
                                 !.in_prelude = FALSE]
                  ELSE ParseErr(d, "CannotParsePreludeLine")
             ELSE IF fmt # "" THEN ParseErr(d, "UnexpectedFormat")
                  ELSE ParseErr(d, "CannotParsePreludeLine")
        ELSE ParseErr(d, "CannotParsePreludeLine")

\* the while loop over the words of a line read after the prelude, from
\* word i
RECURSIVE from_string_clause_line(_, _, _)
from_string_clause_line(d0, line, i) ==
    Bind(d0, LAMBDA d :
        IF i > Len(line) THEN d
        ELSE IF ~parse_isize_is_ok(line[i]) THEN ParseErr(d, "CannotParseClauseLine")
        ELSE LET n == parse_isize[line[i]]
                 var == IF n < 0 THEN wrapping(0 - n) ELSE n
             IN  IF n = 0
                 THEN from_string_clause_line(
                        [d EXCEPT !.clauses = Append(@, Clause_new(d.clause)),
                                  !.clause = << >>], line, i + 1)
                 ELSE from_string_clause_line(
                        [d EXCEPT !.variables = IF var > @ THEN var ELSE @,
                                  !.clause = Append(@, n)], line, i + 1))

\* the checks after the loop
from_string_end(d) ==
    IF d.variables = d.expected_number_of_variables
    THEN IF Len(d.clauses) = d.expected_number_of_clauses
         THEN ParseOk(d, Formula_new(d.clauses))
         ELSE ParseErr(d, "WrongNumberOfClauses")
    ELSE ParseErr(d, "WrongNumberOfVariables")

\* the lines given to from_string: comments, headers right and wrong, and
\* every line of at most MaxLineTokens words that are integers, "c" or "x"
PreludeLines ==
    {<<"c">>, <<"c", "x">>, <<"p">>, <<"p", "cnf">>, <<"p", "cnf", "1">>,
     <<"p", "cnf", "0", "0">>, <<"p", "cnf", "1", "1">>, <<"p", "cnf", "2", "1">>,
     <<"p", "cnf", "2", "2">>, <<"p", "cnf", "1", "2">>, <<"p", "dnf", "1", "1">>,
     <<"p", "cnf", "x", "1">>, <<"p", "cnf", "1", "x">>, <<"p", "cnf", "-1", "1">>}

ClauseWords == DOMAIN parse_isize \cup {"c", "x"}

ClauseLines == UNION {[1..k -> ClauseWords] : k \in 0..MaxLineTokens}

DimacsLines == PreludeLines \cup ClauseLines

DimacsInit ==
    /\ theory = EmptyTheory_new
    /\ formula0 = << >>
    /\ formula = formula0
    /\ model = Model_new
    /\ pc = "dimacs"
    /\ calls = << >>
    /\ did = {}
    /\ evald = NoEval
    /\ dimacs = NoDimacs

\* one iteration of "for line in dimacs.lines()"; an Err returns at once
DimacsLine ==
    /\ pc = "dimacs"
    /\ Len(dimacs.input) < MaxDimacsLines
    /\ \E line \in DimacsLines :
        \E d \in {[dimacs EXCEPT !.input = Append(@, line)]} :
        \E after \in {IF d.in_prelude THEN from_string_prelude_line(d, line)
                                      ELSE from_string_clause_line(d, line, 1)} :
            /\ dimacs' = after
            /\ pc' = IF after.result.kind = "Err" THEN "parsed" ELSE pc
    /\ UNCHANGED <<theory, formula0, formula, model, calls, did, evald>>

\* the text has no more lines
DimacsEnd ==
    /\ pc = "dimacs"
    /\ dimacs' = from_string_end(dimacs)
    /\ pc' = "parsed"
    /\ UNCHANGED <<theory, formula0, formula, model, calls, did, evald>>

DimacsNext ==
    \/ DimacsLine
    \/ DimacsEnd

DimacsSpec == DimacsInit /\ [][DimacsNext]_vars

-----------------------------------------------------------------------------
(* What the claims are measured against: propositional satisfaction by a   *)
(* total assignment, and consistency in EUF by the least congruence on the *)
(* terms of the binding.  Neither uses the operators of the solver.        *)

TrailLiterals == {model[i][1] : i \in 1..Len(model)}

AtomsOf(clauses) ==
    UNION {{IF clauses[i][j] < 0 THEN 0 - clauses[i][j] ELSE clauses[i][j] :
                j \in 1..Len(clauses[i])} : i \in 1..Len(clauses)}

\* the literals a total assignment makes true: A is the set of true atoms
AssignmentLiterals(atoms, A) == A \cup {0 - a : a \in atoms \ A}

\* every clause has a literal in the set S
Satisfies(S, clauses) ==
    \A i \in 1..Len(clauses) : \E j \in 1..Len(clauses[i]) : clauses[i][j] \in S

Satisfiable(clauses) ==
    \E A \in SUBSET AtomsOf(clauses) :
        Satisfies(AssignmentLiterals(AtomsOf(clauses), A), clauses)

TermsOf(ls) == UNION {Subterms(ls[k].left) \cup Subterms(ls[k].right) : k \in 1..Len(ls)}

\* the least relation on U containing R that is symmetric, transitive and
\* closed under congruence
RECURSIVE CongruenceClosure(_, _)
CongruenceClosure(R, U) ==
    LET sym == {<<p[2], p[1]>> : p \in R}
        trans == {<<x[1][1], x[2][2]>> : x \in {y \in R \X R : y[1][2] = y[2][1]}}
        cong == {x \in U \X U :
                    /\ x[1][1] = "Application" /\ x[2][1] = "Application"
                    /\ x[1][2] = x[2][2]
                    /\ Len(x[1][3]) = Len(x[2][3])
                    /\ \A i \in 1..Len(x[1][3]) : <<x[1][3][i], x[2][3][i]>> \in R}
        next == R \cup sym \cup trans \cup cong
    IN  IF next = R THEN R ELSE CongruenceClosure(next, U)

\* whether the model literal l asserts an equality under the binding ls
AssertsEquality(ls, l) == ls[IF l < 0 THEN 0 - l ELSE l].is_equality = (l > 0)

SidesOf(ls, l) ==
    <<ls[IF l < 0 THEN 0 - l ELSE l].left, ls[IF l < 0 THEN 0 - l ELSE l].right>>

\* the EUF literals the model literals of S are bound to have a model: the
\* congruence closure of the equalities equates no pair asserted unequal
EUFConsistent(ls, S) ==
    LET U == TermsOf(ls)
        R == CongruenceClosure(
                {<<t, t>> : t \in U} \cup {SidesOf(ls, l) : l \in {x \in S : AssertsEquality(ls, x)}},
                U)
    IN  \A l \in {x \in S : ~AssertsEquality(ls, x)} : SidesOf(ls, l) \notin R

\* some total assignment to the atoms of the formula satisfies every clause
\* and is consistent in EUF
SatisfiableModuloEUF(ls, clauses) ==
    \E A \in SUBSET AtomsOf(clauses) :
        /\ Satisfies(AssignmentLiterals(AtomsOf(clauses), A), clauses)
        /\ EUFConsistent(ls, AssignmentLiterals(AtomsOf(clauses), A))

Finished == pc \notin {"start", "loop"}

-----------------------------------------------------------------------------
(* The claims.                                                             *)

\* C1: when dpll with the EUF theory returns a trail, the EUF literals the
\* trail's literals are bound to are jointly consistent: the congruence
\* closure of the asserted equalities equates no pair asserted unequal.
C1_ReturnedTrailEUFConsistent ==
    (pc = "sat" /\ theory.kind = "euf") => EUFConsistent(theory.lits, TrailLiterals)

\* C2: when dpll returns a trail, every clause of the formula as passed in
\* (before the pre-pass) has a literal in the trail, for either theory.
C2_ReturnedTrailSatisfiesInput ==
    pc = "sat" => Satisfies(TrailLiterals, formula0)

\* a trail is returned for a formula from which the pre-pass removed a
\* clause, after a backjump
C2_Witness ==
    /\ pc = "sat"
    /\ Len(formula) < Len(formula0)
    /\ "Backjump" \in did

\* C3: with the empty theory, dpll returns unsatisfiable only for formulas no
\* total assignment satisfies, and a run on a satisfiable formula ends with a
\* returned trail.
C3_EmptyTheoryComplete ==
    (Finished /\ theory.kind = "empty") =>
        /\ pc = "unsat" => ~Satisfiable(formula0)
        /\ Satisfiable(formula0) => pc = "sat"

\* unsatisfiable is returned with the empty theory after a decision was
\* flipped, for a formula without the empty clause
C3_Witness ==
    /\ pc = "unsat"
    /\ theory.kind = "empty"
    /\ "Backjump" \in did
    /\ \A i \in 1..Len(formula0) : Len(formula0[i]) > 0

\* C4: when dpll with the EUF theory returns unsatisfiable, no total
\* assignment to the formula's atoms satisfies every clause with its bound EUF
\* literals jointly consistent.
C4_EUFUnsatIsUnsat ==
    (pc = "unsat" /\ theory.kind = "euf") => ~SatisfiableModuloEUF(theory.lits, formula0)

\* unsatisfiable is returned with the EUF theory for a formula that is
\* propositionally satisfiable, after theory propagation
C4_Witness ==
    /\ pc = "unsat"
    /\ theory.kind = "euf"
    /\ Satisfiable(formula0)
    /\ "TheoryPropagation" \in did

\* C5: every run of the loop reaches a final outcome: a returned trail,
\* unsatisfiable, or an abort.
C5_Terminates == <>Finished

\* a run ends after a decision, a propagation and a backjump
C5_Witness ==
    /\ Finished
    /\ {"Decision", "UnitPropagation", "Backjump"} \subseteq did

\* C6: every incorporate call of the loop, at an append and in the replay
\* after a backjump, is made in a theory state where decide answers Some(true)
\* or None for the literal, and the abort of EUF incorporate is never reached.
C6_IncorporatePrecondition ==
    /\ \A i \in 1..Len(calls) : calls[i].decided \in {"SomeTrue", "None"}
    /\ pc # "panic_incorporate"

\* the replay after a backjump under EUF incorporates a surviving literal that
\* decide answers Some(true) for, and then the Backjump literal
C6_Witness ==
    /\ theory.kind = "euf"
    /\ Len(model) >= 2
    /\ model[Len(model)][2] = "Backjump"
    /\ Len(calls) = Len(model)
    /\ calls[Len(calls)].lit = model[Len(model)][1]
    /\ \E i \in 1..(Len(calls) - 1) : calls[i].decided = "SomeTrue"

-----------------------------------------------------------------------------
(* The evaluation claims, measured against the trail as a set of literals. *)

\* some literal of the clause is in the trail
SomeLiteralInTrail(clits) == \E i \in 1..Len(clits) : clits[i] \in TrailLiterals

\* the negation of every literal of the clause is in the trail
EveryNegationInTrail(clits) == \A i \in 1..Len(clits) : (0 - clits[i]) \in TrailLiterals

\* C8 as stated: Formula::is_true_in returns false whenever at least one
\* clause of the formula evaluates false under the trail, also when a clause
\* earlier in input order evaluates unknown.
C8_FalseWheneverSomeClauseFalse ==
    (evald.op = "formula" /\ \E i \in 1..Len(formula) : EveryNegationInTrail(formula[i]))
        => evald.res = "SomeFalse"

\* C8 amended: Formula::is_true_in returns false exactly when the first
\* clause in input order that does not evaluate true evaluates false; a false
\* clause behind an unknown one is not reported.
C8_FalseIffFirstNotTrueClauseFalse ==
    evald.op = "formula" =>
        (evald.res = "SomeFalse" <=>
            \E i \in 1..Len(formula) :
                /\ EveryNegationInTrail(formula[i])
                /\ \A j \in 1..(i - 1) : SomeLiteralInTrail(formula[j]))

\* the formula is evaluated with a false nonempty clause behind an unknown one
C8_Witness ==
    /\ evald.op = "formula"
    /\ evald.res = "None"
    /\ Len(formula) = 2
    /\ ~SomeLiteralInTrail(formula[1]) /\ ~EveryNegationInTrail(formula[1])
    /\ Len(formula[2]) > 0 /\ EveryNegationInTrail(formula[2])

\* C9: Formula::is_true_in returns true exactly when every clause of the
\* formula evaluates true under the trail; the empty formula is true under
\* every trail.
C9_TrueIffEveryClauseTrue ==
    evald.op = "formula" =>
        (evald.res = "SomeTrue" <=> \A i \in 1..Len(formula) : SomeLiteralInTrail(formula[i]))

\* a formula of two different clauses evaluates true
C9_Witness ==
    /\ evald.op = "formula"
    /\ evald.res = "SomeTrue"
    /\ Len(formula) = 2
    /\ formula[1] # formula[2]

\* C10: Clause::is_true_in returns true if some literal of the clause is in
\* the trail, false if the negation of every literal is in the trail (the
\* empty clause is false), unknown otherwise; a literal is true if it is in
\* the trail, false if its negation is, unknown otherwise.
C10_ClauseAndLiteralEvaluation ==
    /\ evald.op = "clause" =>
            evald.res = IF SomeLiteralInTrail(evald.clause) THEN "SomeTrue"
                        ELSE IF EveryNegationInTrail(evald.clause) THEN "SomeFalse"
                        ELSE "None"
    /\ evald.op = "literal" =>
            evald.res = IF evald.lit \in TrailLiterals THEN "SomeTrue"
                        ELSE IF (0 - evald.lit) \in TrailLiterals THEN "SomeFalse"
                        ELSE "None"

\* a clause of a false literal and an unassigned one evaluates unknown
C10_Witness ==
    /\ evald.op = "clause"
    /\ evald.res = "None"
    /\ Len(evald.clause) = 2
    /\ (0 - evald.clause[1]) \in TrailLiterals
    /\ evald.clause[2] \notin TrailLiterals

\* C11: evaluation is monotone in the trail: when a literal whose atom is
\* unassigned is appended, a formula that evaluated true still evaluates
\* true and one that evaluated false still evaluates false; only an unknown
\* result can change.
C11_EvaluationMonotone ==
    [][model' # model =>
        (Formula_is_true_in(formula, model) \in {"SomeTrue", "SomeFalse"} =>
            Formula_is_true_in(formula', model') = Formula_is_true_in(formula, model))]_vars

\* a formula decided by the first trail entry is evaluated after a second
\* entry was appended
C11_Witness ==
    /\ Len(model) = 2
    /\ Len(formula) = 2
    /\ Formula_is_true_in(formula, SubSeq(model, 1, 1)) = "SomeTrue"
    /\ evald.op = "formula"
    /\ evald.res = "SomeTrue"

\* C12 as stated: every literal L built by Literal::new has
\* negate(negate(L)) = L and get_id(L) = get_id(negate(L)) > 0, and
\* Literal::new(0) aborts and yields no literal.
C12_LiteralLaws ==
    evald.op = "literal_ops" =>
        IF evald.lit = 0 THEN evald.res = "Panic"
        ELSE /\ evald.res # "Panic"
             /\ evald.out[2] = evald.lit
             /\ evald.out[3] = evald.out[4]
             /\ evald.out[3] > 0

-----------------------------------------------------------------------------
(* The claims about the EUF theory, over EUFSpec.                          *)

\* C13: decide on a model literal bound to (eq?, a, b) answers Some(eq?)
\* when a and b are identical terms; otherwise Some(true) when eq? agrees
\* with the one of equal(a, b), unequal(a, b) that holds, Some(false) when it
\* disagrees, and None when neither holds; and decide changes nothing of the
\* theory.
C13_DecideTable ==
    /\ [](evald.op = "decide" =>
            LET a == SidesOf(theory.lits, evald.lit)[1]
                b == SidesOf(theory.lits, evald.lit)[2]
                is_eq == AssertsEquality(theory.lits, evald.lit)
                eq == are_equal(theory.equivs, a, b)
                ne == are_unequal(theory.equivs, theory.inequivs, a, b)
            IN  /\ a = b => evald.res = (IF is_eq THEN "SomeTrue" ELSE "SomeFalse")
                /\ (a # b /\ eq /\ ~ne) =>
                        evald.res = (IF is_eq THEN "SomeTrue" ELSE "SomeFalse")
                /\ (a # b /\ ~eq /\ ne) =>
                        evald.res = (IF is_eq THEN "SomeFalse" ELSE "SomeTrue")
                /\ (a # b /\ ~eq /\ ~ne) => evald.res = "None")
    /\ [][evald'.op = "decide" => theory' = theory]_vars

\* decide answers Some(true) for a negated model literal bound to an
\* equality whose sides are known unequal
C13_Witness ==
    /\ evald.op = "decide"
    /\ evald.lit < 0
    /\ theory.lits[0 - evald.lit].is_equality
    /\ theory.lits[0 - evald.lit].left # theory.lits[0 - evald.lit].right
    /\ evald.res = "SomeTrue"

\* the terms of the superterm index
IndexTerms == DOMAIN theory.superterms

\* C14: in every EUF state reached by incorporate and forget calls, equal
\* (are_equal over E) is reflexive, symmetric and transitive on the terms of
\* the superterm index.
C14_EqualIsEquivalence ==
    theory.kind = "euf" =>
        /\ \A t \in IndexTerms : are_equal(theory.equivs, t, t)
        /\ \A t \in IndexTerms : \A u \in IndexTerms :
                are_equal(theory.equivs, t, u) => are_equal(theory.equivs, u, t)
        /\ \A t \in IndexTerms : \A u \in IndexTerms : \A v \in IndexTerms :
                (are_equal(theory.equivs, t, u) /\ are_equal(theory.equivs, u, v))
                    => are_equal(theory.equivs, t, v)

\* after incorporate calls three different terms are equal to each other
C14_Witness ==
    /\ pc = "euf"
    /\ evald.op = "incorporate"
    /\ \E t \in IndexTerms : \E u \in IndexTerms : \E v \in IndexTerms :
        /\ t # u /\ u # v /\ t # v
        /\ are_equal(theory.equivs, t, u)
        /\ are_equal(theory.equivs, u, v)

\* C15: after every incorporate call E is congruence-closed over the terms
\* of the superterm index: two applications of the same function atom and
\* arity whose parameters are pairwise equal are equal.
C15_CongruenceClosed ==
    (theory.kind = "euf" /\ pc = "euf") =>
        \A s \in IndexTerms : \A t \in IndexTerms :
            (/\ s[1] = "Application" /\ t[1] = "Application"
             /\ s[2] = t[2]
             /\ Len(s[3]) = Len(t[3])
             /\ \A i \in 1..Len(s[3]) : are_equal(theory.equivs, s[3][i], t[3][i]))
                => are_equal(theory.equivs, s, t)

\* an incorporate call has returned with two different applications equal
\* that no incorporated literal equates
C15_Witness ==
    /\ pc = "euf"
    /\ evald.op = "incorporate"
    /\ \E s \in IndexTerms : \E t \in IndexTerms :
        /\ s[1] = "Application" /\ t[1] = "Application"
        /\ s # t
        /\ are_equal(theory.equivs, s, t)
        /\ \A k \in 1..Len(theory.lits) :
                {theory.lits[k].left, theory.lits[k].right} # {s, t}

\* C16: after forget, whatever was incorporated before, equal(a, b) holds
\* iff a and b are identical, unequal(a, b) is false for all terms, decide
\* answers None for every literal with different sides, and the bindings and
\* the superterm index are as at construction (no call changes them).
C16_ForgetResets ==
    /\ [](evald.op = "forget" =>
            /\ \A a \in IndexTerms : \A b \in IndexTerms :
                    /\ are_equal(theory.equivs, a, b) <=> a = b
                    /\ ~are_unequal(theory.equivs, theory.inequivs, a, b)
            /\ \A l \in BoundLiterals(theory) :
                    SidesOf(theory.lits, l)[1] # SidesOf(theory.lits, l)[2]
                        => EUF_decide(theory, l) = "None"
            /\ theory.superterms = compute_superterms(theory.lits))
    /\ [][theory.kind = "euf" =>
            theory'.lits = theory.lits /\ theory'.superterms = theory.superterms]_vars

\* forget has returned after an incorporate call
C16_Witness ==
    /\ evald.op = "forget"
    /\ "incorporate" \in did
    /\ "forget" \in did
    /\ theory.equivs = {} /\ theory.inequivs = {}

-----------------------------------------------------------------------------
(* The claims about the pre-pass, the empty theory and the abort of the    *)
(* loop, over Spec.                                                        *)

\* C17: asymmetric tautology elimination preserves the models of the
\* formula: a total assignment to the atoms of the input satisfies every
\* clause of the input iff it satisfies every clause of the simplified formula.
C17_PrePassPreservesModels ==
    pc \in {"loop", "sat", "unsat"} =>
        \A A \in SUBSET AtomsOf(formula0) :
            Satisfies(AssignmentLiterals(AtomsOf(formula0), A), formula0)
                <=> Satisfies(AssignmentLiterals(AtomsOf(formula0), A), formula)

\* the pre-pass removed a clause of a formula that some assignments satisfy
\* and some do not
C17_Witness ==
    /\ pc = "loop"
    /\ Len(formula) < Len(formula0)
    /\ Satisfiable(formula0)
    /\ \E A \in SUBSET AtomsOf(formula0) :
            ~Satisfies(AssignmentLiterals(AtomsOf(formula0), A), formula0)

\* C18: with the empty theory decide answers None for every literal and
\* incorporate and forget change nothing, so no trail entry is a
\* TheoryPropagation: the trail holds UnitPropagation, Decision and Backjump
\* entries only.
C18_EmptyTheoryNeverPropagates ==
    theory.kind = "empty" =>
        /\ theory = EmptyTheory_new
        /\ \A i \in 1..Len(calls) : calls[i].decided = "None"
        /\ \A i \in 1..Len(model) :
                model[i][2] \in {"UnitPropagation", "Decision", "Backjump"}
        /\ "TheoryPropagation" \notin did

\* a run with the empty theory that decided, propagated and backjumped
\* returns a trail of a Backjump and a UnitPropagation entry
C18_Witness ==
    /\ theory.kind = "empty"
    /\ pc = "sat"
    /\ "Decision" \in did
    /\ {model[i][2] : i \in 1..Len(model)} = {"UnitPropagation", "Backjump"}

\* The DIMACS text as the input format describes it, read off the lines
\* given to from_string: the prelude is the comment lines up to the header.
IsCommentLine(line) == Len(line) > 0 /\ line[1] = "c"

HeaderIndex(input) ==
    IF \E i \in 1..Len(input) : ~IsCommentLine(input[i])
    THEN CHOOSE i \in 1..Len(input) :
            /\ ~IsCommentLine(input[i])
            /\ \A j \in 1..(i - 1) : IsCommentLine(input[j])
    ELSE 0

NaturalWords == {w \in DOMAIN parse_isize : parse_isize[w] >= 0}

IsHeaderLine(line) ==
    /\ Len(line) >= 4
    /\ line[1] = "p"
    /\ line[2] = "cnf"
    /\ line[3] \in NaturalWords
    /\ line[4] \in NaturalWords

\* a text of comments only declares nothing
PreludeMalformed(input) ==
    HeaderIndex(input) # 0 /\ ~IsHeaderLine(input[HeaderIndex(input)])

HasHeader(input) == HeaderIndex(input) # 0 /\ IsHeaderLine(input[HeaderIndex(input)])

DeclaredVariables(input) ==
    IF HasHeader(input) THEN parse_isize[input[HeaderIndex(input)][3]] ELSE 0

DeclaredClauses(input) ==
    IF HasHeader(input) THEN parse_isize[input[HeaderIndex(input)][4]] ELSE 0

RECURSIVE ConcatLines(_, _)
ConcatLines(input, i) ==
    IF i > Len(input) THEN << >> ELSE input[i] \o ConcatLines(input, i + 1)

\* the words after the header, line boundaries forgotten
BodyWords(input) ==
    IF HasHeader(input) THEN ConcatLines(input, HeaderIndex(input) + 1) ELSE << >>

ClauseTokenNotInteger(input) ==
    \E k \in 1..Len(BodyWords(input)) : BodyWords(input)[k] \notin DOMAIN parse_isize

Magnitude(n) == IF n < 0 THEN 0 - n ELSE n

MaxAbsLiteral(input) ==
    LET mags == {Magnitude(parse_isize[BodyWords(input)[k]]) :
                    k \in {j \in 1..Len(BodyWords(input)) :
                              BodyWords(input)[j] \in DOMAIN parse_isize}} \cup {0}
    IN  CHOOSE m \in mags : \A n \in mags : n <= m

NumTerminatedClauses(input) ==
    Cardinality({k \in 1..Len(BodyWords(input)) : BodyWords(input)[k] = "0"})

\* the 0-terminated clauses of a sequence of integer words, in order
RECURSIVE TerminatedClausesFrom(_, _, _)
TerminatedClausesFrom(words, i, current) ==
    IF i > Len(words) THEN << >>
    ELSE IF words[i] = "0"
         THEN <<current>> \o TerminatedClausesFrom(words, i + 1, << >>)
         ELSE TerminatedClausesFrom(words, i + 1, Append(current, parse_isize[words[i]]))

TerminatedClauses(input) == TerminatedClausesFrom(BodyWords(input), 1, << >>)

\* C19 as stated: from_string returns an error if and only if the prelude is
\* malformed, a clause token is not an integer, the largest absolute literal
\* value exceeds the declared variable count, or the number of 0-terminated
\* clauses differs from the declared clause count; otherwise it returns the
\* clauses in input order with their literals in input order.
C19_ErrorIffListedCondition ==
    pc = "parsed" =>
        /\ dimacs.result.kind = "Err" <=>
                \/ PreludeMalformed(dimacs.input)
                \/ ClauseTokenNotInteger(dimacs.input)
                \/ MaxAbsLiteral(dimacs.input) > DeclaredVariables(dimacs.input)
                \/ NumTerminatedClauses(dimacs.input) # DeclaredClauses(dimacs.input)
        /\ dimacs.result.kind = "Ok" =>
                dimacs.result.formula = TerminatedClauses(dimacs.input)

\* C20: whenever the formula evaluates unknown under the trail, theory
\* propagation, unit propagation or decision yields a literal, so the abort
\* "failed to do either propagation or decision in an incomplete model" is
\* never reached.
C20_IncompleteModelAbortUnreachable ==
    /\ pc # "panic_incomplete"
    /\ (pc = "loop" /\ Formula_is_true_in(formula, model) = "None") =>
            \/ do_theory_propagation(theory, model, formula).some
            \/ do_theory_propagation(theory, model, formula).panic
            \/ do_unit_propagation(model, formula).some
            \/ do_decision(model, formula).some

\* the formula is unknown, neither propagation yields a literal and the
\* decision does, in a clause behind a true one
C20_Witness ==
    /\ pc = "loop"
    /\ Formula_is_true_in(formula, model) = "None"
    /\ ~do_theory_propagation(theory, model, formula).some
    /\ ~do_unit_propagation(model, formula).some
    /\ do_decision(model, formula).some
    /\ Clause_is_true_in(formula[1], model) = "SomeTrue"

-----------------------------------------------------------------------------
(* The invariants of the loop.                                             *)

\* C21 as stated: in no run of dpll with the EUF theory does the theory hold
\* a pair of indexed terms that is both equal and unequal, and the abort of
\* EUF decide ("both equal and unequal") is never reached.
C21_NoContradictoryPair ==
    /\ pc # "panic_decide"
    /\ theory.kind = "euf" =>
            \A a \in IndexTerms : \A b \in IndexTerms :
                ~(/\ are_equal(theory.equivs, a, b)
                  /\ are_unequal(theory.equivs, theory.inequivs, a, b))

\* the theory after incorporate(L) for the trail entries i.. in trail order
RECURSIVE IncorporatedFrom(_, _, _)
IncorporatedFrom(T, m, i) ==
    IF i > Len(m) THEN T
    ELSE Bind(Theory_incorporate(T, m[i][1]), LAMBDA next : IncorporatedFrom(next, m, i + 1))

\* forget(), then incorporate(L) for every literal of the trail
ForgottenAndReplayed(T, m) == IncorporatedFrom(Theory_forget(T), m, 1)

\* C22: at the start of every iteration of the loop the theory state equals
\* the state obtained by forget() followed by incorporate(L) for every
\* literal L of the current trail in trail order, after appends and after
\* backjumps.
C22_TheoryMirrorsTrail ==
    pc = "loop" => theory = ForgottenAndReplayed(theory, model)

\* an iteration starts under EUF after a backjump and a later append, with
\* equalities and inequalities stored
C22_Witness ==
    /\ pc = "loop"
    /\ theory.kind = "euf"
    /\ theory.equivs # {}
    /\ theory.inequivs # {}
    /\ \E i \in 1..(Len(model) - 1) : model[i][2] = "Backjump"

\* C23: in every state of a run the trail holds no literal together with
\* its negation and no literal twice: each atom id occurs in at most one
\* trail entry.
C23_OneEntryPerAtom ==
    \A i \in 1..Len(model) : \A j \in 1..Len(model) :
        i # j => Literal_get_id(model[i][1]) # Literal_get_id(model[j][1])

\* a trail on which the negation of a popped decision is followed by a later
\* entry
C23_Witness ==
    /\ Len(model) >= 2
    /\ \E i \in 1..(Len(model) - 1) : model[i][2] = "Backjump"
    /\ "Decision" \in did

\* the positions of the Decision entries of the trail
DecisionEntries == {i \in 1..Len(model) : model[i][2] = "Decision"}

\* the position of the most recent Decision entry
LastDecision == CHOOSE i \in DecisionEntries : \A k \in DecisionEntries : k <= i

\* C24: a backjump on a trail that contains a Decision entry removes the
\* most recent Decision entry (d, Decision) and every entry after it, appends
\* exactly one entry (negation of d, Backjump), and leaves every entry before
\* that decision unchanged in literal, provenance and order.
C24_BackjumpFrame ==
    [][(/\ pc = "loop"
        /\ Formula_is_true_in(formula, model) = "SomeFalse"
        /\ DecisionEntries # {})
       => model' = Append(SubSeq(model, 1, LastDecision - 1),
                          <<0 - model[LastDecision][1], "Backjump">>)]_vars

\* the loop has just backjumped over a propagated entry and kept an earlier
\* entry: the replay log covers the whole trail, which ends in the Backjump
\* entry
C24_Witness ==
    /\ pc = "loop"
    /\ Len(model) >= 2
    /\ model[Len(model)][2] = "Backjump"
    /\ Len(calls) = Len(model)
    /\ {"UnitPropagation", "TheoryPropagation"} \cap did # {}

\* C25: dpll returns unsatisfiable only in a state where the formula
\* evaluates false under the trail and the trail contains no Decision entry;
\* whenever the formula evaluates false and a Decision entry exists, the run
\* backjumps and continues instead of returning.
C25_UnsatOnlyWithoutDecision ==
    [][/\ (pc # "unsat" /\ pc' = "unsat") =>
            /\ pc = "loop"
            /\ Formula_is_true_in(formula, model) = "SomeFalse"
            /\ DecisionEntries = {}
       /\ (/\ pc = "loop"
           /\ Formula_is_true_in(formula, model) = "SomeFalse"
           /\ DecisionEntries # {}) =>
            /\ pc' = "loop"
            /\ Len(model') > 0
            /\ model'[Len(model')][2] = "Backjump"]_vars

\* unsatisfiable is returned by a run that backjumped before
C25_Witness ==
    /\ pc = "unsat"
    /\ "Backjump" \in did

\* the literal is unassigned: neither it nor its negation is in the trail
Unassigned(lit) == lit \notin TrailLiterals /\ (0 - lit) \notin TrailLiterals

\* the clause evaluates unknown under the trail
UnknownClause(clits) == ~SomeLiteralInTrail(clits) /\ ~EveryNegationInTrail(clits)

UnknownClauses == {c \in 1..Len(formula) : UnknownClause(formula[c])}

\* the first clause in input order that evaluates unknown
FirstUnknownClause == CHOOSE c \in UnknownClauses : \A k \in UnknownClauses : c <= k

\* its first unassigned literal
FirstUnassignedLiteral ==
    LET clits == formula[FirstUnknownClause]
        open == {l \in 1..Len(clits) : Unassigned(clits[l])}
    IN  clits[CHOOSE l \in open : \A k \in open : l <= k]

\* the step appends one entry of the given provenance
Appends(provenance) ==
    /\ Len(model') = Len(model) + 1
    /\ model'[Len(model')][2] = provenance

\* C26: every Decision entry on the trail is the positive literal of the
\* atom of the first unassigned literal of the first clause (in input order)
\* that evaluates unknown, also when that literal occurs negated in the
\* clause; consequently every Backjump entry is a negative literal.
C26_DecisionsArePositive ==
    /\ [](\A i \in 1..Len(model) :
            /\ model[i][2] = "Decision" => model[i][1] > 0
            /\ model[i][2] = "Backjump" => model[i][1] < 0)
    /\ [][Appends("Decision") =>
            /\ UnknownClauses # {}
            /\ model'[Len(model')][1] = Magnitude(FirstUnassignedLiteral)]_vars

\* the first literal of the first clause is negative; it was decided
\* positive on the empty trail, and the backjump has put its negation in
\* the decision's place
C26_Witness ==
    /\ Len(model) > 0
    /\ model[1][2] = "Backjump"
    /\ model[1][1] < 0
    /\ Len(formula) > 0
    /\ Len(formula[1]) > 0
    /\ formula[1][1] = model[1][1]

\* the theory decides some unassigned literal of the formula
TheoryYields ==
    \E c \in 1..Len(formula) : \E l \in 1..Len(formula[c]) :
        /\ Unassigned(formula[c][l])
        /\ Theory_decide(theory, formula[c][l]) \in {"SomeTrue", "SomeFalse"}

\* lit is unassigned and every literal of the clause other than lit is false
UnitIn(clits, lit) ==
    /\ Unassigned(lit)
    /\ \A k \in 1..Len(clits) : clits[k] # lit => (0 - clits[k]) \in TrailLiterals

\* some clause that evaluates unknown is a unit clause under the trail
UnitYields ==
    \E c \in UnknownClauses : \E l \in 1..Len(formula[c]) : UnitIn(formula[c], formula[c][l])

\* C27: in a state where the formula evaluates unknown the trail is extended
\* in strict priority: a UnitPropagation entry is appended only when theory
\* propagation yields no literal, and a Decision entry is appended only when
\* neither theory propagation nor unit propagation yields a literal.
C27_StrictPriority ==
    [][/\ Appends("UnitPropagation") => ~TheoryYields
       /\ Appends("Decision") => (~TheoryYields /\ ~UnitYields)]_vars

\* a run under EUF in which a theory propagation, a unit propagation and a
\* decision were made
C27_Witness ==
    /\ theory.kind = "euf"
    /\ {"TheoryPropagation", "UnitPropagation", "Decision"} \subseteq did

\* the atom of lit occurs in a clause that is not true under the trail
InClauseNotYetTrue(lit) ==
    \E c \in 1..Len(formula) :
        /\ ~SomeLiteralInTrail(formula[c])
        /\ \E l \in 1..Len(formula[c]) : Magnitude(formula[c][l]) = Magnitude(lit)

\* C28 as stated: theory propagation considers only clauses that are not yet
\* true under the trail: decide is never queried on, and no
\* TheoryPropagation entry is ever derived from, an unassigned literal that
\* occurs (in either polarity) only in clauses already true under the trail.
C28_OnlyClausesNotYetTrue ==
    /\ []((pc = "loop" /\ Formula_is_true_in(formula, model) = "None") =>
            \A q \in do_theory_propagation_queries(theory, model, formula, 1, 1) :
                InClauseNotYetTrue(q))
    /\ [][Appends("TheoryPropagation") => InClauseNotYetTrue(model'[Len(model')][1])]_vars

\* the positions of the unassigned literals, in any clause, that the theory
\* answers for
AnsweredPositions ==
    {p \in UNION {{<<c, l>> : l \in 1..Len(formula[c])} : c \in 1..Len(formula)} :
        /\ Unassigned(formula[p[1]][p[2]])
        /\ Theory_decide(theory, formula[p[1]][p[2]]) # "None"}

\* the first of them in input order
FirstAnswered ==
    CHOOSE p \in AnsweredPositions : \A q \in AnsweredPositions :
        p[1] < q[1] \/ (p[1] = q[1] /\ p[2] <= q[2])

\* C28 amended: theory propagation considers every clause, true under the
\* trail or not: when the formula evaluates unknown, the first unassigned
\* literal L in input order over all clauses for which decide answers gives
\* the TheoryPropagation entry, L for Some(true) and its negation for
\* Some(false); no TheoryPropagation entry is appended otherwise.
C28_EveryClauseConsidered ==
    [][(pc = "loop" /\ Formula_is_true_in(formula, model) = "None") =>
          IF AnsweredPositions = {}
          THEN ~Appends("TheoryPropagation")
          ELSE LET lit == formula[FirstAnswered[1]][FirstAnswered[2]]
                   answer == Theory_decide(theory, lit)
               IN  IF answer = "Panic"
                   THEN pc' = "panic_decide"
                   ELSE /\ Appends("TheoryPropagation")
                        /\ model'[Len(model')][1] =
                               IF answer = "SomeTrue" THEN lit ELSE 0 - lit]_vars

\* the last entry is a TheoryPropagation entry for an atom that occurs only
\* in clauses that were true under the trail before it
C28_Witness ==
    /\ Len(model) > 0
    /\ model[Len(model)][2] = "TheoryPropagation"
    /\ \A c \in 1..Len(formula) :
          (\E l \in 1..Len(formula[c]) :
              Magnitude(formula[c][l]) = Magnitude(model[Len(model)][1]))
          => Clause_is_true_in(formula[c], SubSeq(model, 1, Len(model) - 1)) = "SomeTrue"

\* the clauses that evaluate unknown and are unit under the trail
UnitClauses ==
    {c \in UnknownClauses : \E l \in 1..Len(formula[c]) : UnitIn(formula[c], formula[c][l])}

\* the first of them in input order
FirstUnitClause == CHOOSE c \in UnitClauses : \A k \in UnitClauses : c <= k

\* C29: the literal appended by unit propagation is an unassigned literal L
\* of the first clause in input order that evaluates unknown and in which
\* every literal other than L (all occurrences of L itself removed)
\* evaluates false under the trail; unit propagation yields nothing when no
\* clause of that shape exists.
C29_UnitPropagationLiteral ==
    [][(/\ pc = "loop"
        /\ Formula_is_true_in(formula, model) = "None"
        /\ AnsweredPositions = {}) =>
          IF UnitClauses = {}
          THEN ~Appends("UnitPropagation")
          ELSE /\ Appends("UnitPropagation")
               /\ \E l \in 1..Len(formula[FirstUnitClause]) :
                      model'[Len(model')][1] = formula[FirstUnitClause][l]
               /\ UnitIn(formula[FirstUnitClause], model'[Len(model')][1])]_vars

\* the last entry was unit-propagated, on a trail that was not empty, from a
\* clause after the first
C29_Witness ==
    /\ Len(model) >= 2
    /\ model[Len(model)][2] = "UnitPropagation"
    /\ Len(formula) >= 2
    /\ \A l \in 1..Len(formula[1]) : formula[1][l] # model[Len(model)][1]

\* C30: every loop iteration that is not a backjump and does not terminate
\* appends exactly one entry to the trail, for an atom that was unassigned,
\* and leaves all existing entries unchanged; entries are removed only by a
\* backjump and only from the tail.
C30_AppendOnlyBetweenBackjumps ==
    [][/\ (/\ pc = "loop"
           /\ pc' = "loop"
           /\ Formula_is_true_in(formula, model) # "SomeFalse") =>
            /\ Len(model') = Len(model) + 1
            /\ SubSeq(model', 1, Len(model)) = model
            /\ Unassigned(model'[Len(model')][1])
       /\ (\E i \in 1..Len(model) : i > Len(model') \/ model'[i] # model[i]) =>
            /\ pc = "loop"
            /\ Formula_is_true_in(formula, model) = "SomeFalse"
            /\ \E k \in 0..(Len(model) - 1) :
                  /\ SubSeq(model', 1, k) = SubSeq(model, 1, k)
                  /\ Len(model') \in {k, k + 1}
                  /\ Len(model') = k + 1 => model'[k + 1][2] = "Backjump"]_vars

\* an iteration has appended a propagated entry to a trail that a backjump
\* had cut before
C30_Witness ==
    /\ pc = "loop"
    /\ Len(model) >= 2
    /\ model[Len(model)][2] \in {"UnitPropagation", "TheoryPropagation"}
    /\ model[Len(model) - 1][2] = "Backjump"

-----------------------------------------------------------------------------
(* The relations of the EUF theory, over EUFSpec.                          *)

\* C31: in every EUF state reached by any sequence of incorporate and forget
\* calls, E is symmetric: b is in E[a] exactly when a is in E[b].
C31_EquivsSymmetric ==
    theory.kind = "euf" =>
        \A p \in theory.equivs : <<p[2], p[1]>> \in theory.equivs

\* incorporate has returned after a forget with terms in E
C31_Witness ==
    /\ pc = "euf"
    /\ evald.op = "incorporate"
    /\ "forget" \in did
    /\ theory.equivs # {}

\* C32: in every EUF state, whatever the order in which the pairs of D were
\* inserted, unequal (are_unequal over E and D) is irreflexive and symmetric
\* on the terms of the superterm index.
C32_UnequalIrreflexiveSymmetric ==
    theory.kind = "euf" =>
        \A a \in IndexTerms : \A b \in IndexTerms :
            /\ ~are_unequal(theory.equivs, theory.inequivs, a, a)
            /\ are_unequal(theory.equivs, theory.inequivs, a, b)
                    <=> are_unequal(theory.equivs, theory.inequivs, b, a)

\* two terms are unequal in the orientation in which no pair of D has them
C32_Witness ==
    /\ pc = "euf"
    /\ "incorporate" \in did
    /\ \E a \in IndexTerms : \E b \in IndexTerms :
        /\ are_unequal(theory.equivs, theory.inequivs, a, b)
        /\ <<a, b>> \notin theory.inequivs
        /\ <<b, a>> \in theory.inequivs

\* the equalities among the terms of U that follow from the equality
\* literals among the model literals S by reflexivity, symmetry,
\* transitivity and congruence
EntailedEqualities(ls, S) ==
    CongruenceClosure(
        {<<t, t>> : t \in TermsOf(ls)}
            \cup {SidesOf(ls, l) : l \in {x \in S : AssertsEquality(ls, x)}},
        TermsOf(ls))

\* C33: after any sequence of incorporate calls since construction or the
\* last forget, equal(a, b) holds for two terms of the superterm index
\* exactly when a = b follows from the incorporated equality literals by
\* reflexivity, symmetry, transitivity and congruence.
C33_EqualIsLeastCongruence ==
    theory.kind = "euf" =>
        Bind(EntailedEqualities(theory.lits, calls), LAMBDA entailed :
            \A a \in IndexTerms : \A b \in IndexTerms :
                are_equal(theory.equivs, a, b) <=> <<a, b>> \in entailed)

\* after two incorporated equalities two terms are equal that no
\* incorporated literal equates, and two terms of the index are not equal
C33_Witness ==
    /\ pc = "euf"
    /\ evald.op = "incorporate"
    /\ Cardinality({l \in calls : AssertsEquality(theory.lits, l)}) >= 2
    /\ \E a \in IndexTerms : \E b \in IndexTerms :
        /\ a # b
        /\ are_equal(theory.equivs, a, b)
        /\ \A l \in calls : {a, b} # {SidesOf(theory.lits, l)[1], SidesOf(theory.lits, l)[2]}
    /\ \E a \in IndexTerms : \E b \in IndexTerms : ~are_equal(theory.equivs, a, b)

\* incorporate(l) for every literal l of S once, in ascending order
RECURSIVE IncorporatedOnceInOrder(_, _)
IncorporatedOnceInOrder(T, S) ==
    IF S = {} THEN T
    ELSE Bind(CHOOSE x \in S : \A y \in S : x <= y, LAMBDA l :
            IncorporatedOnceInOrder(EUF_incorporate(T, l), S \ {l}))

\* C34: the observable EUF state does not depend on the order or the
\* multiplicity of the incorporate calls: whatever sequence of calls
\* incorporated a set of literals, equal and unequal over the terms of the
\* superterm index (and so every answer of decide) are those of the state
\* that incorporates each literal of the set once, in ascending order.
C34_OrderAndMultiplicityIrrelevant ==
    theory.kind = "euf" =>
        Bind(IncorporatedOnceInOrder(EUF_forget(theory), calls), LAMBDA once :
            \A a \in IndexTerms : \A b \in IndexTerms :
                /\ are_equal(theory.equivs, a, b) <=> are_equal(once.equivs, a, b)
                /\ are_unequal(theory.equivs, theory.inequivs, a, b)
                        <=> are_unequal(once.equivs, once.inequivs, a, b))

\* the literal incorporated last had been incorporated before or is not the
\* greatest of those incorporated, with terms equal and terms unequal
C34_Witness ==
    /\ pc = "euf"
    /\ evald.op = "incorporate"
    /\ Cardinality(calls) >= 3
    /\ \E l \in calls : l > evald.lit
    /\ \E a \in IndexTerms : \E b \in IndexTerms :
            a # b /\ are_equal(theory.equivs, a, b)
    /\ \E a \in IndexTerms : \E b \in IndexTerms :
            are_unequal(theory.equivs, theory.inequivs, a, b)

\* the number of atoms and applications a term is built from
RECURSIVE TermSize(_)
TermSize(t) ==
    LET RECURSIVE SizeFrom(_)
        SizeFrom(i) == IF i > Len(t[3]) THEN 0 ELSE TermSize(t[3][i]) + SizeFrom(i + 1)
    IN  1 + SizeFrom(1)

\* C35: every add_equiv call terminates, and every term in E, as a key or as
\* a member, is a term of the superterm index.  Termination is stated by its
\* measure: whatever two terms of the index add_equiv is called with, each
\* recursive call it makes is on two terms of the index again whose sizes
\* add up to strictly more, and the index is finite.
C35_AddEquivStaysInIndex ==
    theory.kind = "euf" =>
        /\ \A p \in theory.equivs : p[1] \in IndexTerms /\ p[2] \in IndexTerms
        /\ \A left \in IndexTerms : \A right \in IndexTerms :
            \A c \in add_equiv_recursive_calls(theory.superterms, left, right) :
                /\ c[1] \in IndexTerms /\ c[2] \in IndexTerms
                /\ TermSize(c[1]) + TermSize(c[2]) > TermSize(left) + TermSize(right)

\* an incorporated equality made add_equiv call itself, and it skipped a
\* rewritten term that is not in the index
C35_Witness ==
    /\ pc = "euf"
    /\ evald.op = "incorporate"
    /\ evald.lit \in calls
    /\ AssertsEquality(theory.lits, evald.lit)
    /\ add_equiv_recursive_calls(theory.superterms, SidesOf(theory.lits, evald.lit)[1],
                                 SidesOf(theory.lits, evald.lit)[2]) # {}
    /\ add_equiv_recursive_calls_unindexed(theory.superterms, SidesOf(theory.lits, evald.lit)[1],
                                           SidesOf(theory.lits, evald.lit)[2])
            # add_equiv_recursive_calls(theory.superterms, SidesOf(theory.lits, evald.lit)[1],
                                        SidesOf(theory.lits, evald.lit)[2])

\* the answer of decide with Some(b) turned into Some(not b)
DualAnswer(res) ==
    IF res = "SomeTrue" THEN "SomeFalse"
    ELSE IF res = "SomeFalse" THEN "SomeTrue"
    ELSE res

\* C36: in every EUF state in which decide does not abort, decide(k) and
\* decide(-k) are dual for every bound atom k: one answers Some(b) exactly
\* when the other answers Some(not b), and None exactly when the other
\* answers None.
C36_DecideIsDual ==
    theory.kind = "euf" =>
        \A k \in {l \in BoundLiterals(theory) : l > 0} :
            (EUF_decide(theory, k) # "Panic" /\ EUF_decide(theory, Literal_negate(k)) # "Panic")
                => EUF_decide(theory, Literal_negate(k)) = DualAnswer(EUF_decide(theory, k))

\* decide has answered Some(false) for a literal with different sides whose
\* negation it answers Some(true), and None for another atom
C36_Witness ==
    /\ pc = "euf"
    /\ evald.op = "decide"
    /\ evald.res = "SomeFalse"
    /\ SidesOf(theory.lits, evald.lit)[1] # SidesOf(theory.lits, evald.lit)[2]
    /\ EUF_decide(theory, Literal_negate(evald.lit)) = "SomeTrue"
    /\ \E k \in BoundLiterals(theory) :
            EUF_decide(theory, k) = "None" /\ EUF_decide(theory, Literal_negate(k)) = "None"

-----------------------------------------------------------------------------
(* The pre-pass as its documentation describes it, over Spec.              *)

\* whether the set of literals S holds a literal and its negation
HasComplementaryPair(S) == \E l \in S : (0 - l) \in S

\* ALA(F, C) of the documentation: S, the literals of C, closed under adding
\* the negation of l for every clause (l1 || ... || lk || l) of the set of
\* other clauses with l1 ... lk in S
RECURSIVE ALA(_, _)
ALA(others, S) ==
    LET next == S \cup {0 - l : l \in {x \in UNION others :
                                        \E c \in others : x \in c /\ (c \ {x}) \subseteq S}}
    IN  IF next = S THEN S ELSE ALA(others, next)

\* clause i of the clauses is an asymmetric tautology with respect to the
\* other clauses: its ALA is a tautology
IsAsymmetricTautology(clauses, i) ==
    HasComplementaryPair(
        ALA({SeqToSet(clauses[j]) : j \in (1..Len(clauses)) \ {i}}, SeqToSet(clauses[i])))

\* whether the clauses r[i..] are clauses of f[j..] in the order of f, each
\* with its literals as f has them
RECURSIVE SubsequenceFrom(_, _, _, _)
SubsequenceFrom(r, f, i, j) ==
    IF i > Len(r) THEN TRUE
    ELSE IF j > Len(f) THEN FALSE
    ELSE IF r[i] = f[j] THEN SubsequenceFrom(r, f, i + 1, j + 1)
    ELSE SubsequenceFrom(r, f, i, j + 1)

IsSubsequence(r, f) == SubsequenceFrom(r, f, 1, 1)

\* the positions of the input formula whose clause occurs again at another
\* position, while the simplified formula has no such clause
AllCopiesRemoved ==
    {i \in 1..Len(formula0) :
        /\ \E j \in (1..Len(formula0)) \ {i} : formula0[j] = formula0[i]
        /\ \A k \in 1..Len(formula) : formula[k] # formula0[i]}

\* the clauses of the input formula that differ from clause i, then clause i
ClausesDifferentThenOne(i) ==
    SelectSeq(formula0, LAMBDA c : c # formula0[i]) \o <<formula0[i]>>

\* C37 as stated: the result of the pre-pass is a subsequence of the input
\* formula, and of several identical clauses at least one survives.
C37_SubsequenceAndACopySurvives ==
    pc # "start" =>
        /\ IsSubsequence(formula, formula0)
        /\ AllCopiesRemoved = {}

\* C37: the result of the pre-pass is a subsequence of the input formula:
\* the surviving clauses keep their relative order and their literals
\* exactly as given; and of several identical clauses at least one survives
\* unless the clause is an asymmetric tautology with respect to the clauses
\* of the formula that differ from it.
C37_SubsequenceAndCopies ==
    pc # "start" =>
        /\ IsSubsequence(formula, formula0)
        /\ \A i \in AllCopiesRemoved :
                IsAsymmetricTautology(ClausesDifferentThenOne(i),
                                      Len(ClausesDifferentThenOne(i)))

\* the pre-pass has removed every copy of a clause that the formula has
\* twice and has kept another clause
C37_Witness ==
    /\ pc # "start"
    /\ AllCopiesRemoved # {}
    /\ Len(formula) >= 1
    /\ formula # formula0

\* C38: the single pass of the pre-pass reaches the fixpoint its
\* documentation describes: no clause of the returned formula is an
\* asymmetric tautology with respect to the other returned clauses, so a
\* second pass removes nothing.
C38_SinglePassReachesFixpoint ==
    pc # "start" =>
        /\ \A i \in 1..Len(formula) : ~IsAsymmetricTautology(formula, i)
        /\ asymmetric_tautology_elimination(formula) = formula

====
